---------------------------- MODULE Spec2Model ----------------------------
(***************************************************************************)
(* LinkGuard risk-scoring engine: the URL evaluator                         *)
(* (backend/app/services/url_analysis.py), the sender evaluator             *)
(* (backend/app/services/sender_analysis.py) and the two endpoints that     *)
(* call them (backend/app/api/analyze.py).                                  *)
(*                                                                         *)
(* Text is modelled at character level: a Python str is a sequence of       *)
(* one-character strings, so that strip, split, replace, substring tests,   *)
(* the host regular expression and the address parsers are computed the     *)
(* way the code computes them.  All inputs are ASCII.                       *)
(***************************************************************************)
EXTENDS Integers, Sequences, FiniteSets, TLC

VARIABLES
    kwOrder,      \* iteration order of the set SUSPICIOUS_PATH_KEYWORDS in this process
    url,          \* the str handed to analyze_url
    urlResult,    \* the dict analyze_url returned for url, or NoResult
    urlPrev,      \* the dict an earlier call returned for the same url, or NoResult
    sender,       \* the keyword arguments handed to analyze_sender
    senderResult, \* the dict analyze_sender returned for sender, or NoResult
    senderPrev,   \* the dict an earlier call returned for the same sender, or NoResult
    request,      \* the request an endpoint of analyze.py was given, or NoResult
    response,     \* what the endpoint answered: a verdict, or an HTTP error
    sink,         \* the scan events committed to the database, oldest first
    sinkFailed,   \* the _record_scan_event calls of the request whose database write raised
    evalFailed,   \* the analyze_url_service calls of the request that raised
    clock,        \* what time.time() returns, in seconds
    rateBuckets,  \* _RATE_BUCKETS: for each limiter key the deque it holds, 0 for none
    deques,       \* the deque objects made so far, each a list of timestamps
    workers,      \* the threads of the pool, each with its place in rate_limit_analyze_url
    rateLog,      \* the requests the limiter has answered, oldest first
    apiKeys,      \* the rows of the table api_keys, by id
    authLog       \* the calls of require_api_key and revoke_api_key answered, oldest first

vars == <<kwOrder, url, urlResult, urlPrev, sender, senderResult, senderPrev,
          request, response, sink, sinkFailed, evalFailed,
          clock, rateBuckets, deques, workers, rateLog, apiKeys, authLog>>
urlVars == <<kwOrder, url, urlResult, urlPrev>>
senderVars == <<sender, senderResult, senderPrev>>
apiVars == <<request, response, sink, sinkFailed, evalFailed>>
rateVars == <<clock, rateBuckets, deques, workers, rateLog>>
authVars == <<apiKeys, authLog>>

\* Python's None, a value no str is equal to.
None == <<"<None>">>
\* No call has returned yet.
NoResult == [none |-> TRUE]

\* no request has reached an endpoint, and the table of scan events is empty
ApiIdle ==
    /\ request = NoResult
    /\ response = NoResult
    /\ sink = <<>>
    /\ sinkFailed = {}
    /\ evalFailed = {}

\* the limiter has seen no request
RateIdle ==
    /\ clock = 0
    /\ rateBuckets = <<>>
    /\ deques = <<>>
    /\ workers = <<>>
    /\ rateLog = <<>>

\* the table api_keys is empty and nobody has presented a key
AuthIdle ==
    /\ apiKeys = <<>>
    /\ authLog = <<>>

-----------------------------------------------------------------------------
(* str primitives *)

Min(S) == CHOOSE x \in S : \A y \in S : x <= y
Max(S) == CHOOSE x \in S : \A y \in S : x >= y

\* F(v), with v computed once and bound to a name, as an assignment does
Let(F(_), v) == CHOOSE r \in {F(x) : x \in {v}} : TRUE

\* s.find(c, start) for a one-character c, as a 1-based position; 0 when absent
FindChar(s, c, start) ==
    LET hits == {i \in start..Len(s) : s[i] = c}
    IN IF hits = {} THEN 0 ELSE Min(hits)

\* s.rfind(c) for a one-character c, as a 1-based position; 0 when absent
RFindChar(s, c) ==
    LET hits == {i \in 1..Len(s) : s[i] = c}
    IN IF hits = {} THEN 0 ELSE Max(hits)

\* t in s
Contains(s, t) ==
    \E i \in 1..(Len(s) - Len(t) + 1) : SubSeq(s, i, i + Len(t) - 1) = t

\* s.split(c) for a one-character c
Split(s, c) ==
    LET seps == {i \in 1..Len(s) : s[i] = c}
        n == Cardinality(seps)
        pos(k) == IF k = 0 THEN 0
                  ELSE IF k = n + 1 THEN Len(s) + 1
                  ELSE CHOOSE p \in seps : Cardinality({q \in seps : q < p}) = k - 1
    IN [k \in 1..(n + 1) |-> SubSeq(s, pos(k - 1) + 1, pos(k) - 1)]

\* s.partition(c)[0]
Before(s, c) ==
    LET i == FindChar(s, c, 1) IN IF i = 0 THEN s ELSE SubSeq(s, 1, i - 1)

\* s.partition(c)[2]
After(s, c) ==
    LET i == FindChar(s, c, 1) IN IF i = 0 THEN <<>> ELSE SubSeq(s, i + 1, Len(s))

\* s.rpartition(c)[2]
AfterLast(s, c) ==
    LET i == RFindChar(s, c) IN IF i = 0 THEN s ELSE SubSeq(s, i + 1, Len(s))

\* s.replace(a, b) for one-character a and b
ReplaceChar(s, a, b) == [i \in 1..Len(s) |-> IF s[i] = a THEN b ELSE s[i]]

UpperLetters == <<"A", "B", "C", "D", "E", "F", "G", "H", "I", "J", "K", "L", "M",
                  "N", "O", "P", "Q", "R", "S", "T", "U", "V", "W", "X", "Y", "Z">>
LowerLetters == <<"a", "b", "c", "d", "e", "f", "g", "h", "i", "j", "k", "l", "m",
                  "n", "o", "p", "q", "r", "s", "t", "u", "v", "w", "x", "y", "z">>
Digits == {"0", "1", "2", "3", "4", "5", "6", "7", "8", "9"}
Range(f) == {f[i] : i \in DOMAIN f}
Letters == Range(UpperLetters) \cup Range(LowerLetters)

LowerChar(c) ==
    IF c \in Range(UpperLetters)
    THEN LowerLetters[CHOOSE i \in 1..26 : UpperLetters[i] = c]
    ELSE c

\* s.lower()
Lower(s) == [i \in 1..Len(s) |-> LowerChar(s[i])]

\* the ASCII characters str.strip() removes
Whitespace == {" ", "\t", "\n", "\r", "\f"}

\* s.lstrip(chars)
LStrip(s, chars) ==
    LET keep == {i \in 1..Len(s) : s[i] \notin chars}
    IN IF keep = {} THEN <<>> ELSE SubSeq(s, Min(keep), Len(s))

\* s.strip()
Strip(s) ==
    LET keep == {i \in 1..Len(s) : s[i] \notin Whitespace}
    IN IF keep = {} THEN <<>> ELSE SubSeq(s, Min(keep), Max(keep))

\* the value of a str of ASCII decimal digits, int(s, 10)
DigitValue(c) ==
    CASE c = "0" -> 0 [] c = "1" -> 1 [] c = "2" -> 2 [] c = "3" -> 3 [] c = "4" -> 4
      [] c = "5" -> 5 [] c = "6" -> 6 [] c = "7" -> 7 [] c = "8" -> 8 [] c = "9" -> 9

RECURSIVE ParseInt(_)
ParseInt(s) ==
    IF s = <<>> THEN 0 ELSE 10 * ParseInt(SubSeq(s, 1, Len(s) - 1)) + DigitValue(s[Len(s)])

-----------------------------------------------------------------------------
(* ipaddress.ip_address, as far as _is_ip_host and urlsplit use it: does the  *)
(* str parse as an IPv4 or an IPv6 address                                   *)

\* IPv4Address._parse_octet does not raise
OctetOk(o) ==
    /\ o # <<>>
    /\ \A i \in 1..Len(o) : o[i] \in Digits
    /\ Len(o) <= 3
    /\ (o = <<"0">> \/ o[1] # "0")
    /\ ParseInt(o) <= 255

\* IPv4Address(s) does not raise
IsIPv4(s) ==
    /\ s # <<>>
    /\ ~Contains(s, <<"/">>)
    /\ LET octets == Split(s, ".")
       IN Len(octets) = 4 /\ \A i \in 1..4 : OctetOk(octets[i])

HexDigits == Digits \cup {"a", "b", "c", "d", "e", "f", "A", "B", "C", "D", "E", "F"}

\* IPv6Address._parse_hextet does not raise
HextetOk(h) ==
    /\ \A i \in 1..Len(h) : h[i] \in HexDigits
    /\ Len(h) <= 4
    /\ h # <<>>

\* IPv6Address._ip_int_from_string does not raise
IPv6BodyOk(s) ==
    LET parts0 == Split(s, ":")
        last0 == parts0[Len(parts0)]
        v4tail == Contains(last0, <<".">>)
        \* an IPv4 suffix is replaced by its two hextets
        parts == IF v4tail
                 THEN SubSeq(parts0, 1, Len(parts0) - 1) \o <<<<"0">>, <<"0">>>>
                 ELSE parts0
        n == Len(parts)
        skips == {i \in 2..(n - 1) : parts[i] = <<>>}
        skip == CHOOSE i \in skips : TRUE
        hi0 == skip - 1
        lo0 == n - skip
        hi == IF parts[1] = <<>> THEN hi0 - 1 ELSE hi0
        lo == IF parts[n] = <<>> THEN lo0 - 1 ELSE lo0
    IN /\ s # <<>>
       /\ Len(parts0) >= 3
       /\ v4tail => IsIPv4(last0)
       /\ n <= 9
       /\ Cardinality(skips) <= 1
       /\ IF skips # {}
          THEN /\ parts[1] = <<>> => hi = 0
               /\ parts[n] = <<>> => lo = 0
               /\ 8 - (hi + lo) >= 1
               /\ \A i \in 1..hi : HextetOk(parts[i])
               /\ \A i \in (n - lo + 1)..n : HextetOk(parts[i])
          ELSE /\ n = 8
               /\ \A i \in 1..n : HextetOk(parts[i])

\* IPv6Address(s) does not raise
IsIPv6(s) ==
    /\ ~Contains(s, <<"/">>)
    /\ LET addr == Before(s, "%")
           scope == After(s, "%")
       IN /\ Contains(s, <<"%">>) => (scope # <<>> /\ ~Contains(scope, <<"%">>))
          /\ IPv6BodyOk(addr)

-----------------------------------------------------------------------------
(* urllib.parse.urlparse, as analyze_url uses it: .hostname and .path, or a   *)
(* ValueError                                                               *)

\* urllib.parse._WHATWG_C0_CONTROL_OR_SPACE, the ASCII characters of it that inputs use
C0ControlOrSpace == {" ", "\t", "\n", "\r", "\f"}
\* urllib.parse._UNSAFE_URL_BYTES_TO_REMOVE
UnsafeUrlBytes == {"\t", "\r", "\n"}
\* urllib.parse.scheme_chars
SchemeChars == Letters \cup Digits \cup {"+", "-", "."}
\* urllib.parse.uses_params
UsesParams ==
    {<<>>, <<"f", "t", "p">>, <<"h", "d", "l">>,
     <<"p", "r", "o", "s", "p", "e", "r", "o">>, <<"h", "t", "t", "p">>,
     <<"i", "m", "a", "p">>, <<"h", "t", "t", "p", "s">>,
     <<"s", "h", "t", "t", "p">>, <<"r", "t", "s", "p">>,
     <<"r", "t", "s", "p", "s">>, <<"r", "t", "s", "p", "u">>,
     <<"s", "i", "p">>, <<"s", "i", "p", "s">>, <<"m", "m", "s">>,
     <<"s", "f", "t", "p">>, <<"t", "e", "l">>}

\* urllib.parse._check_bracketed_host does not raise
BracketedHostOk(h) ==
    IF h # <<>> /\ h[1] = "v"
    THEN \* re.match(r"\Av[a-fA-F0-9]+\..+\Z", h)
         \E d \in 3..(Len(h) - 1) :
            /\ h[d] = "."
            /\ \A i \in 2..(d - 1) : h[i] \in HexDigits
    ELSE ~IsIPv4(h) /\ IsIPv6(h)

\* urlsplit, the scheme: [scheme, url] after
\*   i = url.find(':'); if i > 0 and url[0].isascii() and url[0].isalpha(): ...
SplitScheme(u) ==
    LET i == FindChar(u, ":", 1)
    IN IF /\ i > 1
          /\ u[1] \in Letters
          /\ \A k \in 1..(i - 1) : u[k] \in SchemeChars
       THEN [scheme |-> Lower(SubSeq(u, 1, i - 1)), url |-> SubSeq(u, i + 1, Len(u))]
       ELSE [scheme |-> <<>>, url |-> u]

\* urlsplit, the authority: [netloc, url] after
\*   if url[:2] == '//': netloc, url = _splitnetloc(url, 2)
SplitNetloc(u) ==
    LET delims == {k \in 3..Len(u) : u[k] \in {"/", "?", "#"}}
        delim == IF delims = {} THEN Len(u) + 1 ELSE Min(delims)
    IN IF Len(u) >= 2 /\ SubSeq(u, 1, 2) = <<"/", "/">>
       THEN [netloc |-> SubSeq(u, 3, delim - 1), url |-> SubSeq(u, delim, Len(u))]
       ELSE [netloc |-> <<>>, url |-> u]

\* urlsplit raises ValueError for this netloc: an unmatched bracket, or a
\* bracketed host that _check_bracketed_host refuses
NetlocRaises(netloc) ==
    LET open == Contains(netloc, <<"[">>)
        close == Contains(netloc, <<"]">>)
    IN \/ open /\ ~close
       \/ close /\ ~open
       \/ open /\ close /\ ~BracketedHostOk(Before(After(netloc, "["), "]"))

\* urllib.parse.urlsplit: [raises, scheme, netloc, path, query], path still holding ;params
urlsplit(u) ==
    Let(LAMBDA sch :
          Let(LAMBDA nl :
                [raises |-> NetlocRaises(nl.netloc),
                 scheme |-> sch.scheme,
                 netloc |-> nl.netloc,
                 path |-> Before(Before(nl.url, "#"), "?"),
                 query |-> After(Before(nl.url, "#"), "?")],
              SplitNetloc(sch.url)),
        Let(SplitScheme,
            Let(LAMBDA u1 : SelectSeq(u1, LAMBDA c : c \notin UnsafeUrlBytes),
                LStrip(u, C0ControlOrSpace))))

\* urllib.parse._splitparams(url)[0], for a url that holds a ';'
_splitparams(p) ==
    IF Contains(p, <<"/">>)
    THEN LET i == FindChar(p, ";", RFindChar(p, "/"))
         IN IF i = 0 THEN p ELSE SubSeq(p, 1, i - 1)
    ELSE SubSeq(p, 1, FindChar(p, ";", 1) - 1)

\* _NetlocResultMixinStr._hostinfo[0]
HostInfoName(netloc) ==
    Let(LAMBDA hostinfo :
          IF Contains(hostinfo, <<"[">>)
          THEN Before(After(hostinfo, "["), "]")
          ELSE Before(hostinfo, ":"),
        AfterLast(netloc, "@"))

\* ParseResult.hostname: None is modelled by the empty str, which the caller
\* (parsed.hostname or "") makes of it anyway
hostname(netloc) ==
    Let(LAMBDA name :
          Lower(Before(name, "%")) \o
          (IF Contains(name, <<"%">>) THEN <<"%">> \o After(name, "%") ELSE <<>>),
        HostInfoName(netloc))

\* urllib.parse.urlparse: [raises, scheme, netloc, hostname, path, query]
urlparse(u) ==
    Let(LAMBDA sp :
          [raises |-> sp.raises,
           scheme |-> sp.scheme,
           netloc |-> sp.netloc,
           query |-> sp.query,
           hostname |-> hostname(sp.netloc),
           path |-> IF sp.scheme \in UsesParams /\ Contains(sp.path, <<";">>)
                    THEN _splitparams(sp.path)
                    ELSE sp.path],
        urlsplit(u))

-----------------------------------------------------------------------------
(* url_analysis.py *)

SUSPICIOUS_TLDS ==
    {<<"z", "i", "p">>, <<"m", "o", "v">>, <<"t", "o", "p">>, <<"x", "y", "z">>,
     <<"c", "l", "i", "c", "k">>, <<"c", "o", "u", "n", "t", "r", "y">>,
     <<"s", "t", "r", "e", "a", "m">>, <<"g", "q">>, <<"t", "k">>}

BRANDS ==
    {<<"g", "o", "o", "g", "l", "e">>, <<"p", "a", "y", "p", "a", "l">>,
     <<"m", "i", "c", "r", "o", "s", "o", "f", "t">>, <<"a", "p", "p", "l", "e">>,
     <<"a", "m", "a", "z", "o", "n">>}

\* SUSPICIOUS_PATH_KEYWORDS, in the order the source lists its elements; the
\* value is a set, KeywordsListed only names its elements
KeywordsListed ==
    << <<"l", "o", "g", "i", "n">>, <<"s", "i", "g", "n", "i", "n">>,
       <<"s", "i", "g", "n", "-", "i", "n">>, <<"v", "e", "r", "i", "f", "y">>,
       <<"v", "e", "r", "i", "f", "i", "c", "a", "t", "i", "o", "n">>,
       <<"p", "a", "s", "s", "w", "o", "r", "d">>, <<"r", "e", "s", "e", "t">>,
       <<"u", "p", "d", "a", "t", "e">>, <<"s", "e", "c", "u", "r", "e">>,
       <<"a", "c", "c", "o", "u", "n", "t">>, <<"b", "i", "l", "l", "i", "n", "g">>,
       <<"b", "a", "n", "k">>, <<"w", "a", "l", "l", "e", "t">>,
       <<"c", "o", "n", "f", "i", "r", "m">> >>

SUSPICIOUS_PATH_KEYWORDS == Range(KeywordsListed)

Reverse(s) == [i \in 1..Len(s) |-> s[Len(s) + 1 - i]]

\* Iterating a Python set of str visits its elements in an order fixed by the
\* process's string hash seed (PYTHONHASHSEED, random by default): one order per
\* interpreter process, any permutation across processes.  Two orders that
\* disagree on every pair of keywords stand for the permutations.
KeywordOrders == {KeywordsListed, Reverse(KeywordsListed)}

RiskCategory == {"SAFE", "SUSPICIOUS", "DANGEROUS"}

\* An explanation str: its fixed text and the value formatted into it
Expl(text, arg) == [text |-> text, arg |-> arg]

\* str(n) for 0 <= n <= 99
DigitChars == <<"0", "1", "2", "3", "4", "5", "6", "7", "8", "9">>
IntToStr(n) ==
    IF n < 10 THEN <<DigitChars[n + 1]>>
    ELSE <<DigitChars[(n \div 10) + 1], DigitChars[(n % 10) + 1]>>

\* _ensure_scheme with raw = raw.strip() left out
_ensure_scheme_without_strip(raw) ==
    IF ~Contains(raw, <<":", "/", "/">>)
    THEN <<"h", "t", "t", "p", "s", ":", "/", "/">> \o raw
    ELSE raw

_ensure_scheme(raw) ==
    LET r == Strip(raw)
    IN IF ~Contains(r, <<":", "/", "/">>)
       THEN <<"h", "t", "t", "p", "s", ":", "/", "/">> \o r
       ELSE r

_is_ip_host(host) == IsIPv4(host) \/ IsIPv6(host)

\* _HOST_RE.match(host): ^[a-z0-9.-]+$, where $ also matches before a final newline
HostReMatch(host) ==
    LET body == IF host # <<>> /\ host[Len(host)] = "\n"
                THEN SubSeq(host, 1, Len(host) - 1)
                ELSE host
    IN /\ body # <<>>
       /\ \A i \in 1..Len(body) :
            body[i] \in Range(LowerLetters) \cup Digits \cup {".", "-"}

\* _is_plausible_host with the dot-or-IP requirement left out
_is_plausible_host_without_dot_check(host) ==
    IF host = <<>> THEN FALSE
    ELSE IF " " \in Range(host) THEN FALSE
    ELSE HostReMatch(host)

_is_plausible_host(host) ==
    IF host = <<>> THEN FALSE
    ELSE IF Contains(host, <<" ">>) THEN FALSE
    ELSE IF ~HostReMatch(host) THEN FALSE
    ELSE IF ~Contains(host, <<".">>) THEN _is_ip_host(host)
    ELSE TRUE

\* None when the host has a single label
_get_tld(host) ==
    LET parts == Split(host, ".")
    IN IF Len(parts) < 2 THEN None ELSE parts[Len(parts)]

\* _subdomain_count counting the labels minus the last one only
_subdomain_count_minus_one(host) ==
    IF Len(Split(host, ".")) <= 2 THEN 0 ELSE Len(Split(host, ".")) - 1

_subdomain_count(host) ==
    LET parts == Split(host, ".")
    IN IF Len(parts) <= 2 THEN 0 ELSE Len(parts) - 2

\* [hit, msg]: msg is <<>> for None and <<m>> for the str m
_looks_like_typosquat(host) ==
    LET parts == Split(host, ".")
        sld == parts[Len(parts) - 1]
        normalized == ReplaceChar(ReplaceChar(ReplaceChar(sld, "0", "o"), "1", "l"), "3", "e")
    IN IF Len(parts) < 2 THEN [hit |-> FALSE, msg |-> <<>>]
       ELSE IF normalized \in BRANDS /\ sld # normalized
       THEN [hit |-> TRUE, msg |-> <<Expl("Possible typosquatting of brand", normalized)>>]
       ELSE [hit |-> FALSE, msg |-> <<>>]

\* for kw in SUSPICIOUS_PATH_KEYWORDS: if kw in path: ...; break
\* the keywords a loop without its break reports: every one the path contains
EveryKeywordIn(path, order) ==
    SelectSeq(order, LAMBDA kw : Contains(path, kw))

\* the keywords the loop reports, visiting the set in the given order: the first
\* one the path contains, or none
FirstKeywordIn(path, order) ==
    LET hits == {i \in 1..Len(order) : Contains(path, order[i])}
    IN IF hits = {} THEN <<>> ELSE <<order[Min(hits)]>>

\* The dict the guarded returns and the except branch build
Sentinel(text, normalized_url) ==
    [risk_category |-> "SUSPICIOUS",
     score |-> 40,
     explanations |-> <<Expl(text, <<>>)>>,
     normalized_url |-> normalized_url,
     host |-> None]

\* the category mapping with a strict DANGEROUS threshold
UrlCategoryStrictThreshold(score) ==
    IF score > 60 THEN "DANGEROUS"
    ELSE IF score >= 25 THEN "SUSPICIOUS"
    ELSE "SAFE"

\* the category mapping of analyze_url, applied to the accumulated score
UrlCategory(score) ==
    IF score >= 60 THEN "DANGEROUS"
    ELSE IF score >= 25 THEN "SUSPICIOUS"
    ELSE "SAFE"

\* an IP rule weight below the DANGEROUS threshold, and a TLD rule weight below
\* the SUSPICIOUS threshold
WeightIpHostBelowDangerous == 70 - 20
WeightSuspiciousTldBelowSuspicious == 25 - 5

\* score += ... of the five rules
WeightIpHost == 70
WeightSuspiciousTld == 25
WeightManySubdomains == 25
WeightTyposquat == 30
WeightPathKeyword == 30

\* the rules of analyze_url on a validated host: [score, explanations], the
\* score not yet clamped
UrlRules(host, path, order) ==
    LET ip == _is_ip_host(host)
        tld == _get_tld(host)
        tldHit == tld # None /\ tld # <<>> /\ tld \in SUSPICIOUS_TLDS
        sub_count == _subdomain_count(host)
        typo == _looks_like_typosquat(host)
        typoHit == typo.hit /\ typo.msg # <<>>
        kw == IF path # <<>> THEN FirstKeywordIn(path, order) ELSE <<>>
    IN [score |-> (IF ip THEN WeightIpHost ELSE 0)
                  + (IF tldHit THEN WeightSuspiciousTld ELSE 0)
                  + (IF sub_count >= 4 THEN WeightManySubdomains ELSE 0)
                  + (IF typoHit THEN WeightTyposquat ELSE 0)
                  + WeightPathKeyword * Len(kw),
        explanations |->
              (IF ip THEN <<Expl("Host is an IP address (common in phishing)", <<>>)>>
               ELSE <<>>)
           \o (IF tldHit THEN <<Expl("Suspicious TLD: .", tld)>> ELSE <<>>)
           \o (IF sub_count >= 4 THEN <<Expl("Many subdomains", IntToStr(sub_count))>>
               ELSE <<>>)
           \o (IF typoHit THEN typo.msg ELSE <<>>)
           \o [i \in 1..Len(kw) |-> Expl("Suspicious path keyword", kw[i])]]

\* min(score, 100)
MinScore100(score) == IF score < 100 THEN score ELSE 100

\* an exception that leaves a block
Raised == [raised |-> TRUE]

\* the try block of analyze_url after host and path are known
AnalyzeUrlParsed(normalized_url, host, path, order) ==
    IF host = <<>>
    THEN Sentinel("Invalid URL (missing host)", normalized_url)
    ELSE IF ~_is_plausible_host(host)
    THEN Sentinel("Invalid or unparseable URL", normalized_url)
    ELSE Let(LAMBDA r :
               [risk_category |-> UrlCategory(r.score),
                score |-> MinScore100(r.score),
                explanations |-> IF r.explanations # <<>> THEN r.explanations
                                 ELSE <<Expl("No suspicious patterns detected", <<>>)>>,
                normalized_url |-> normalized_url,
                host |-> host],
             UrlRules(host, path, order))

\* the try block of analyze_url: the dict it returns, or Raised when urlparse
\* raises ValueError
AnalyzeUrlTry(u, order) ==
    Let(LAMBDA normalized_url :
          Let(LAMBDA parsed :
                IF parsed.raises THEN Raised
                ELSE Let(LAMBDA host :
                           Let(LAMBDA path :
                                 AnalyzeUrlParsed(normalized_url, host, path, order),
                               Lower(parsed.path)),
                         Lower(parsed.hostname)),
              urlparse(normalized_url)),
        _ensure_scheme(u))

\* analyze_url without its except Exception branch
analyze_url_without_except(u, order) == AnalyzeUrlTry(u, order)

\* analyze_url(url), with the set SUSPICIOUS_PATH_KEYWORDS iterated in `order`:
\* the try block, and the except Exception branch around it
analyze_url(u, order) ==
    Let(LAMBDA r :
          IF r = Raised
          THEN Sentinel("Invalid or unparseable URL", _ensure_scheme(u))
          ELSE r,
        AnalyzeUrlTry(u, order))

-----------------------------------------------------------------------------
(* sender_analysis.py *)

FREE_EMAIL_PROVIDERS ==
    {<<"g", "m", "a", "i", "l", ".", "c", "o", "m">>,
     <<"o", "u", "t", "l", "o", "o", "k", ".", "c", "o", "m">>,
     <<"h", "o", "t", "m", "a", "i", "l", ".", "c", "o", "m">>,
     <<"l", "i", "v", "e", ".", "c", "o", "m">>,
     <<"y", "a", "h", "o", "o", ".", "c", "o", "m">>,
     <<"a", "o", "l", ".", "c", "o", "m">>,
     <<"i", "c", "l", "o", "u", "d", ".", "c", "o", "m">>,
     <<"m", "e", ".", "c", "o", "m">>, <<"p", "r", "o", "t", "o", "n", ".", "m", "e">>,
     <<"p", "r", "o", "t", "o", "n", "m", "a", "i", "l", ".", "c", "o", "m">>,
     <<"p", "m", ".", "m", "e">>, <<"g", "m", "x", ".", "c", "o", "m">>}

\* BRAND_TOKENS, a dict: its keys in insertion order, which is the order
\* BRAND_TOKENS.keys() iterates in
BrandKeys ==
    <<<<"g", "o", "o", "g", "l", "e">>,
      <<"m", "i", "c", "r", "o", "s", "o", "f", "t">>,
      <<"p", "a", "y", "p", "a", "l">>,
      <<"a", "p", "p", "l", "e">>,
      <<"a", "m", "a", "z", "o", "n">>,
      <<"d", "o", "c", "u", "s", "i", "g", "n">>,
      <<"o", "k", "t", "a">>,
      <<"d", "r", "o", "p", "b", "o", "x">>,
      <<"l", "i", "n", "k", "e", "d", "i", "n">>,
      <<"f", "a", "c", "e", "b", "o", "o", "k">>,
      <<"i", "n", "s", "t", "a", "g", "r", "a", "m">>>>

\* BRAND_TOKENS[brand]
BRAND_TOKENS(brand) ==
    CASE brand = <<"g", "o", "o", "g", "l", "e">> ->
           {<<"g", "o", "o", "g", "l", "e", ".", "c", "o", "m">>}
      [] brand = <<"m", "i", "c", "r", "o", "s", "o", "f", "t">> ->
           {<<"m", "i", "c", "r", "o", "s", "o", "f", "t", ".", "c", "o", "m">>,
            <<"o", "f", "f", "i", "c", "e", ".", "c", "o", "m">>,
            <<"l", "i", "v", "e", ".", "c", "o", "m">>}
      [] brand = <<"p", "a", "y", "p", "a", "l">> ->
           {<<"p", "a", "y", "p", "a", "l", ".", "c", "o", "m">>}
      [] brand = <<"a", "p", "p", "l", "e">> ->
           {<<"a", "p", "p", "l", "e", ".", "c", "o", "m">>,
            <<"i", "c", "l", "o", "u", "d", ".", "c", "o", "m">>,
            <<"m", "e", ".", "c", "o", "m">>}
      [] brand = <<"a", "m", "a", "z", "o", "n">> ->
           {<<"a", "m", "a", "z", "o", "n", ".", "c", "o", "m">>}
      [] brand = <<"d", "o", "c", "u", "s", "i", "g", "n">> ->
           {<<"d", "o", "c", "u", "s", "i", "g", "n", ".", "c", "o", "m">>}
      [] brand = <<"o", "k", "t", "a">> ->
           {<<"o", "k", "t", "a", ".", "c", "o", "m">>}
      [] brand = <<"d", "r", "o", "p", "b", "o", "x">> ->
           {<<"d", "r", "o", "p", "b", "o", "x", ".", "c", "o", "m">>}
      [] brand = <<"l", "i", "n", "k", "e", "d", "i", "n">> ->
           {<<"l", "i", "n", "k", "e", "d", "i", "n", ".", "c", "o", "m">>}
      [] brand = <<"f", "a", "c", "e", "b", "o", "o", "k">> ->
           {<<"f", "a", "c", "e", "b", "o", "o", "k", ".", "c", "o", "m">>,
            <<"m", "e", "t", "a", ".", "c", "o", "m">>}
      [] brand = <<"i", "n", "s", "t", "a", "g", "r", "a", "m">> ->
           {<<"i", "n", "s", "t", "a", "g", "r", "a", "m", ".", "c", "o", "m">>}

ORGISH_TOKENS ==
    {<<"s", "u", "p", "p", "o", "r", "t">>, <<"h", "e", "l", "p", "d", "e", "s", "k">>,
     <<"h", "e", "l", "p">>, <<"s", "e", "c", "u", "r", "i", "t", "y">>,
     <<"a", "d", "m", "i", "n">>, <<"i", "t">>, <<"b", "i", "l", "l", "i", "n", "g">>,
     <<"i", "n", "v", "o", "i", "c", "e">>, <<"a", "c", "c", "o", "u", "n", "t", "s">>,
     <<"t", "e", "a", "m">>, <<"s", "e", "r", "v", "i", "c", "e">>,
     <<"c", "u", "s", "t", "o", "m", "e", "r">>,
     <<"v", "e", "r", "i", "f", "i", "c", "a", "t", "i", "o", "n">>,
     <<"v", "e", "r", "i", "f", "y">>, <<"a", "l", "e", "r", "t">>,
     <<"n", "o", "t", "i", "c", "e">>}

\* label.translate(LEET_MAP)
LeetChar(c) ==
    CASE c = "0" -> "o" [] c = "1" -> "l" [] c = "3" -> "e" [] c = "4" -> "a"
      [] c = "5" -> "s" [] c = "7" -> "t" [] c = "8" -> "b" [] c = "9" -> "g"
      [] OTHER -> c
LeetTranslate(s) == [i \in 1..Len(s) |-> LeetChar(s[i])]

risk_category_from_score(score) ==
    IF score >= 60 THEN "DANGEROUS"
    ELSE IF score >= 25 THEN "SUSPICIOUS"
    ELSE "SAFE"

\* _extract_domain without the test for "@"
_extract_domain_without_at_check(email) ==
    IF email = None \/ email = <<>> THEN <<>>
    ELSE Lower(Strip(AfterLast(Strip(email), "@")))

_extract_domain(email) ==
    IF email = None \/ email = <<>> THEN <<>>
    ELSE LET e == Strip(email)
         IN IF ~Contains(e, <<"@">>) THEN <<>>
            ELSE Lower(Strip(AfterLast(e, "@")))

\* ".".join(parts)
RECURSIVE JoinDot(_)
JoinDot(parts) ==
    IF Len(parts) = 1 THEN parts[1]
    ELSE parts[1] \o <<".">> \o JoinDot(Tail(parts))

\* _base_domain keeping every label of the domain
_base_domain_whole_domain(domain) == domain

_base_domain(domain) ==
    LET parts == SelectSeq(Split(domain, "."), LAMBDA p : p # <<>>)
    IN IF Len(parts) >= 2
       THEN JoinDot(SubSeq(parts, Len(parts) - 1, Len(parts)))
       ELSE domain

\* len(n.split()): the number of maximal runs of non-whitespace characters
WordCount(n) ==
    Cardinality({i \in 1..Len(n) :
        n[i] \notin Whitespace /\ (i = 1 \/ n[i - 1] \in Whitespace)})

\* \w of the re module, for ASCII
WordChars == Letters \cup Digits \cup {"_"}

\* the words of the regular expression \b(it|security|support|billing|accounts)\b
RoleWords ==
    {<<"i", "t">>, <<"s", "e", "c", "u", "r", "i", "t", "y">>,
     <<"s", "u", "p", "p", "o", "r", "t">>, <<"b", "i", "l", "l", "i", "n", "g">>,
     <<"a", "c", "c", "o", "u", "n", "t", "s">>}

\* re.search(r"\b(it|security|support|billing|accounts)\b", n)
RoleWordSearch(n) ==
    \E w \in RoleWords : \E i \in 1..(Len(n) - Len(w) + 1) :
        /\ SubSeq(n, i, i + Len(w) - 1) = w
        /\ (i = 1 \/ n[i - 1] \notin WordChars)
        /\ (i + Len(w) - 1 = Len(n) \/ n[i + Len(w)] \notin WordChars)

_looks_organizational_display_name(name) ==
    IF name = None \/ name = <<>> THEN FALSE
    ELSE LET n == Lower(Strip(name))
         IN IF n = <<>> THEN FALSE
            ELSE IF Contains(n, <<"@">>) THEN FALSE
            ELSE IF \E tok \in ORGISH_TOKENS : Contains(n, tok) THEN TRUE
            ELSE IF WordCount(n) >= 2 /\ RoleWordSearch(n) THEN TRUE
            ELSE FALSE

\* None, or the first brand, in the order of the dict, that the text contains
_find_brand_in_text(text) ==
    LET t == Lower(text)
        hits == {i \in 1..Len(BrandKeys) : Contains(t, BrandKeys[i])}
    IN IF hits = {} THEN None ELSE BrandKeys[Min(hits)]

_is_free_provider(domain) == Lower(domain) \in FREE_EMAIL_PROVIDERS

_has_punycode(domain) == Contains(Lower(domain), <<"x", "n", "-", "-">>)

\* None, or the brand the first label of the domain imitates
_looks_like_brand_leetspeak(domain) ==
    LET d == Lower(domain)
        label == Split(d, ".")[1]
        normalized == LeetTranslate(label)
        hits == {i \in 1..Len(BrandKeys) :
                    normalized = BrandKeys[i] /\ label # BrandKeys[i]}
    IN IF d = <<>> THEN None
       ELSE IF (\A i \in 1..Len(d) : d[i] \notin Digits) /\ ~_has_punycode(d) THEN None
       ELSE IF hits = {} THEN None
       ELSE BrandKeys[Min(hits)]

\* reply_to_emails = None, a value no list of str is equal to
NoList == <<None>>

\* the domains of the Reply-To addresses that have one, in their order
ReplyToDomains(reply_to_emails) ==
    IF reply_to_emails = NoList \/ reply_to_emails = <<>> THEN <<>>
    ELSE SelectSeq([i \in 1..Len(reply_to_emails) |-> _extract_domain(reply_to_emails[i])],
                   LAMBDA d : d # <<>>)

\* the final score without the cap at 100
ClampScoreWithoutCap(score) == IF score < 0 THEN 0 ELSE score

\* max(0, min(int(score), 100))
ClampScore(score) ==
    LET lo == IF score < 100 THEN score ELSE 100
    IN IF lo > 0 THEN lo ELSE 0

\* the explanations with the texts of rules 4a and 4b appended in the other order
SenderExplanationsLookalikeFirst(mismatch, free, display, puny, lookalike) ==
       (IF mismatch THEN <<"Reply-To domain does not match From domain.">> ELSE <<>>)
    \o (IF free
        THEN <<"Sender uses a free email provider for an organizational-looking display name.">>
        ELSE <<>>)
    \o (IF display
        THEN <<"Display name suggests a brand/organization that doesn't match the sender domain.">>
        ELSE <<>>)
    \o (IF lookalike
        THEN <<"Sender domain appears to be a lookalike of a well-known brand.">>
        ELSE <<>>)
    \o (IF puny
        THEN <<"Sender domain contains punycode (xn--), which is sometimes used for lookalike domains.">>
        ELSE <<>>)

\* explanations.append(...) of the rules that fired, in the order of the rules
SenderExplanations(mismatch, free, display, puny, lookalike) ==
       (IF mismatch THEN <<"Reply-To domain does not match From domain.">> ELSE <<>>)
    \o (IF free
        THEN <<"Sender uses a free email provider for an organizational-looking display name.">>
        ELSE <<>>)
    \o (IF display
        THEN <<"Display name suggests a brand/organization that doesn't match the sender domain.">>
        ELSE <<>>)
    \o (IF puny
        THEN <<"Sender domain contains punycode (xn--), which is sometimes used for lookalike domains.">>
        ELSE <<>>)
    \o (IF lookalike
        THEN <<"Sender domain appears to be a lookalike of a well-known brand.">>
        ELSE <<>>)

analyze_sender(from_name, from_email, reply_to_emails) ==
    LET from_domain == _extract_domain(from_email)
        from_base == _base_domain(from_domain)
        reply_to_domains == ReplyToDomains(reply_to_emails)
        \* 1) Reply-To domain mismatch
        mismatch == /\ from_domain # <<>>
                    /\ reply_to_domains # <<>>
                    /\ \E i \in 1..Len(reply_to_domains) :
                          _base_domain(reply_to_domains[i]) # from_base
        \* 2) free-mail provider used for an organizational display name
        free == /\ from_domain # <<>>
                /\ _is_free_provider(from_domain)
                /\ _looks_organizational_display_name(from_name)
        \* 3) display name against sender domain
        brand_in_name == _find_brand_in_text(IF from_name = None THEN <<>> ELSE from_name)
        display == /\ brand_in_name # None
                   /\ from_domain # <<>>
                   /\ _base_domain(from_domain) \notin
                         {_base_domain(d) : d \in BRAND_TOKENS(brand_in_name)}
        \* 4a) punycode
        puny == from_domain # <<>> /\ _has_punycode(from_domain)
        \* 4b) leetspeak lookalike
        lookalike == from_domain # <<>> /\ _looks_like_brand_leetspeak(from_domain) # None
        signals ==
              (IF mismatch THEN <<"reply_to_mismatch">> ELSE <<>>)
           \o (IF free THEN <<"free_mail_provider">> ELSE <<>>)
           \o (IF display THEN <<"display_name_domain_mismatch">> ELSE <<>>)
           \o (IF puny THEN <<"punycode_domain">> ELSE <<>>)
           \o (IF lookalike THEN <<"lookalike_domain">> ELSE <<>>)
        explanations == SenderExplanations(mismatch, free, display, puny, lookalike)
        score == ClampScore((IF mismatch THEN 40 ELSE 0) + (IF free THEN 15 ELSE 0)
                            + (IF display THEN 15 ELSE 0) + (IF puny THEN 30 ELSE 0)
                            + (IF lookalike THEN 35 ELSE 0))
    IN [score |-> score,
        risk_category |-> risk_category_from_score(score),
        explanations |-> explanations,
        signals |-> signals]

-----------------------------------------------------------------------------
(* The inputs of analyze_url: strs put together from a scheme, a host made of *)
(* labels, and a path                                                       *)

\* the most copies of one label put in front of a host
MaxSub == 4

HostLabels ==
    {<<"g", "o", "o", "g", "l", "e">>, <<"g", "0", "0", "g", "l", "e">>,
     <<"c", "o", "m">>, <<"x", "y", "z">>, <<"1">>, <<"2", "5", "6">>, <<>>}

\* one or two labels
CoreHosts ==
    HostLabels \cup {a \o <<".">> \o b : a \in HostLabels, b \in HostLabels}

RECURSIVE Repeat(_, _)
Repeat(s, k) == IF k = 0 THEN <<>> ELSE s \o Repeat(s, k - 1)

LabelledHosts ==
    {Repeat(sub \o <<".">>, k) \o core :
        sub \in {<<"a">>, <<"1">>}, k \in 0..MaxSub, core \in CoreHosts}

\* hosts that exercise the parser and the validation
OddHosts ==
    {<<"g", "o", "o", "g", "l", "e", ".", "c", "o", "m">>,
     <<"G", "0", "0", "G", "L", "E", ".", "C", "o", "m">>,
     <<"1", ".", "1", ".", "1", ".", "1">>,
     <<"0", "1", ".", "1", ".", "1", ".", "1">>,
     <<"l", "o", "c", "a", "l", "h", "o", "s", "t">>,
     <<"g", "o", " ", "o", "g", "l", "e", ".", "c", "o", "m">>,
     <<"g", "o", "o", "g", "l", "e", ".", "c", "o", "m", "\n">>,
     <<"g", "_", "o", ".", "c", "o", "m">>,
     <<"[", ":", ":", "1", "]">>,
     <<"[", "1", ".", "1", ".", "1", ".", "1", "]">>,
     <<"[", "v", "1", ".", "x", "y", "z", "]">>,
     <<"[", "c", "o", "m">>,
     <<>>}

Schemes ==
    {<<>>, <<"h", "t", "t", "p", ":", "/", "/">>, <<"w", "s", ":", "/", "/">>,
     <<":", "/", "/">>}

Paths ==
    {<<>>, <<"/">>, <<"/", "l", "o", "g", "i", "n">>,
     <<"/", "L", "O", "G", "I", "N", "/", "v", "e", "r", "i", "f", "y">>,
     <<"/", "s", "i", "g", "n", "-", "i", "n">>,
     <<"/", "a", ";", "r", "e", "s", "e", "t">>,
     <<"?", "b", "a", "n", "k">>,
     <<"/", "x", "#", "b", "a", "n", "k">>}

\* what stands around the host in the authority: user information and a port
Authorities == {<< <<>>, <<>> >>, << <<"u", "@">>, <<":", "8", "0">> >>}
\* leading and trailing text around the URL
Pads == {<< <<>>, <<>> >>, << <<" ">>, <<"\t", " ">> >>}

RulePaths ==
    {<<>>, <<"/", "l", "o", "g", "i", "n">>,
     <<"/", "L", "O", "G", "I", "N", "/", "v", "e", "r", "i", "f", "y">>,
     <<"?", "b", "a", "n", "k">>}

UrlInputs ==
    {h \o p : h \in LabelledHosts, p \in RulePaths}
    \cup
    {pad[1] \o sch \o auth[1] \o h \o auth[2] \o p \o pad[2] :
        pad \in Pads, sch \in Schemes, auth \in Authorities, h \in OddHosts,
        p \in Paths}

-----------------------------------------------------------------------------
(* The URL evaluator as a state machine: a process holds one iteration order  *)
(* of the keyword set, and answers calls of analyze_url                      *)

InitUrl ==
    /\ kwOrder \in KeywordOrders
    /\ url \in UrlInputs
    /\ urlResult = NoResult
    /\ urlPrev = NoResult
    /\ sender = NoResult
    /\ senderResult = NoResult
    /\ senderPrev = NoResult
    /\ ApiIdle
    /\ RateIdle
    /\ AuthIdle

\* a call analyze_url(url); the result of the call before it is kept
AnalyzeUrl ==
    /\ url # None
    /\ urlPrev' = urlResult
    /\ urlResult' = analyze_url(url, kwOrder)
    /\ UNCHANGED <<kwOrder, url, senderVars, apiVars, rateVars, authVars>>

\* the service is started anew (or the call goes to another worker process):
\* the interpreter draws a new string hash seed
RestartProcess ==
    /\ kwOrder' \in KeywordOrders \ {kwOrder}
    /\ UNCHANGED <<url, urlResult, urlPrev, senderVars, apiVars, rateVars, authVars>>

NextUrl == AnalyzeUrl \/ RestartProcess

SpecUrl == InitUrl /\ [][NextUrl]_vars

-----------------------------------------------------------------------------
(* The inputs of analyze_sender *)

\* the most Reply-To addresses of a sender identity
MaxReplyTo == 2

FromNames ==
    {None} \cup
    {<<>>, <<"A", "l", "i", "c", "e">>,
     <<"I", "T", " ", "S", "u", "p", "p", "o", "r", "t">>,
     <<"G", "o", "o", "g", "l", "e", " ", "S", "e", "c", "u", "r", "i", "t", "y">>,
     <<"A", "p", "p", "l", "e">>, <<"x", "@", "y">>, <<" ", " ">>,
     <<"A", "p", "p", "l", "e", " ", "v", "i", "a", " ", "G", "o", "o", "g", "l", "e">>}

FromEmails ==
    {None} \cup
    {<<>>, <<"a", "l", "i", "c", "e">>,
     <<"a", "l", "i", "c", "e", "@", "c", "o", "m", "p", "a", "n", "y", ".", "c", "o", "m">>,
     <<"i", "t", "@", "g", "m", "a", "i", "l", ".", "c", "o", "m">>,
     <<"a", "@", "G", "O", "0", "G", "L", "E", ".", "c", "o", "m">>,
     <<"a", "@", "x", "n", "-", "-", "p", "p", "l", "e", ".", "c", "o", "m">>,
     <<"a", "@", "g", "0", "0", "g", "l", "e", ".", "x", "n", "-", "-", "p", "1", "a", "i">>,
     <<"a", "@", "m", "a", "i", "l", ".", "g", "o", "o", "g", "l", "e", ".", "c", "o", "m">>,
     <<"a", "@", "i", "c", "l", "o", "u", "d", ".", "c", "o", "m">>,
     <<" ", "a", "@", "b", "@", "C", "o", "m", "p", "a", "n", "y", ".", "c", "o", "m", " ">>,
     <<"a", "@">>,
     <<"a", "@", "a", "p", "p", "1", "e", ".", "m", "e", ".", "c", "o", "m">>}

ReplyToEmails ==
    {<<"r", "@", "c", "o", "m", "p", "a", "n", "y", ".", "c", "o", "m">>,
     <<"r", "@", "m", "a", "i", "l", ".", "c", "o", "m", "p", "a", "n", "y", ".", "c", "o", "m">>,
     <<"r", "@", "o", "t", "h", "e", "r", ".", "c", "o", "m">>,
     <<"r", "@", "C", "o", "m", "p", "a", "n", "y", ".", "c", "o", "m", ".">>,
     <<"n", "o", "b", "o", "d", "y">>}

RECURSIVE ListsUpTo(_, _)
\* the lists of at most n elements of S
ListsUpTo(S, n) ==
    IF n = 0 THEN {<<>>}
    ELSE LET shorter == ListsUpTo(S, n - 1)
         IN shorter \cup {Append(l, x) : l \in shorter, x \in S}

SenderInputs ==
    [from_name : FromNames,
     from_email : FromEmails,
     reply_to_emails : {NoList} \cup ListsUpTo(ReplyToEmails, MaxReplyTo)]

-----------------------------------------------------------------------------
(* The sender evaluator as a state machine *)

InitSender ==
    /\ kwOrder = KeywordsListed
    /\ url = None
    /\ urlResult = NoResult
    /\ urlPrev = NoResult
    /\ sender \in SenderInputs
    /\ senderResult = NoResult
    /\ senderPrev = NoResult
    /\ ApiIdle
    /\ RateIdle
    /\ AuthIdle

\* a call analyze_sender(**sender); the result of the call before it is kept
AnalyzeSender ==
    /\ sender # NoResult
    /\ senderPrev' = senderResult
    /\ senderResult' = analyze_sender(sender.from_name, sender.from_email,
                                      sender.reply_to_emails)
    /\ UNCHANGED <<sender, urlVars, apiVars, rateVars, authVars>>

NextSender == AnalyzeSender

SpecSender == InitSender /\ [][NextSender]_vars

-----------------------------------------------------------------------------
(* Both evaluators in one process, which has one call to answer *)

Init == InitUrl \/ InitSender

Next == AnalyzeUrl \/ RestartProcess \/ AnalyzeSender

Spec == Init /\ [][Next]_vars

-----------------------------------------------------------------------------
(* api/analyze.py: what both endpoints do with one URL *)

\* unquote(s.replace('+', ' ')) of urllib.parse.parse_qsl, for a str without
\* %-escapes (the requests hold none)
UnquotePlus(s) == ReplaceChar(s, "+", " ")

\* parse_qs(query).get(name, [""])[0], pairs being query.split('&'): the value
\* of the first pair name=value with that name and a non-empty value, else ""
RECURSIVE FirstQueryValue(_, _)
FirstQueryValue(pairs, name) ==
    IF pairs = <<>> THEN <<>>
    ELSE IF /\ Contains(Head(pairs), <<"=">>)
            /\ After(Head(pairs), "=") # <<>>
            /\ UnquotePlus(Before(Head(pairs), "=")) = name
         THEN UnquotePlus(After(Head(pairs), "="))
         ELSE FirstQueryValue(Tail(pairs), name)

\* test_flag without .lower()
TestFlagAsWritten(u) ==
    Let(LAMBDA parsed :
          IF parsed.raises THEN <<>>
          ELSE FirstQueryValue(
                  Split(parsed.query, "&"),
                  <<"l", "i", "n", "k", "g", "u", "a", "r", "d", "_", "t", "e", "s", "t">>),
        urlparse(u))

\* test_flag of the dev hook: "" when urlparse raises
TestFlag(u) ==
    Let(LAMBDA parsed :
          IF parsed.raises THEN <<>>
          ELSE Lower(FirstQueryValue(
                        Split(parsed.query, "&"),
                        <<"l", "i", "n", "k", "g", "u", "a", "r", "d", "_", "t", "e", "s", "t">>)),
        urlparse(u))

DangerFlags ==
    {<<"d", "a", "n", "g", "e", "r">>, <<"d", "a", "n", "g", "e", "r", "o", "u", "s">>}
SuspiciousFlags ==
    {<<"s", "u", "s", "p", "i", "c", "i", "o", "u", "s">>, <<"s", "u", "s">>}

\* a forced DANGEROUS whose score is below the DANGEROUS threshold
ForcedDangerousBelowThreshold(u) ==
    [risk_category |-> "DANGEROUS",
     score |-> 100 - 50,
     explanations |-> <<Expl("Forced DANGEROUS via linkguard_test (dev hook).", <<>>)>>,
     normalized_url |-> u]

\* the dicts the endpoints make up themselves
ForcedDangerous(u) ==
    [risk_category |-> "DANGEROUS",
     score |-> 100,
     explanations |-> <<Expl("Forced DANGEROUS via linkguard_test (dev hook).", <<>>)>>,
     normalized_url |-> u]
ForcedSuspicious(u) ==
    [risk_category |-> "SUSPICIOUS",
     score |-> 55,
     explanations |-> <<Expl("Forced SUSPICIOUS via linkguard_test (dev hook).", <<>>)>>,
     normalized_url |-> u]
\* a fallback that waves the url through
AnalysisUnavailableWavedThrough(u) ==
    [risk_category |-> "SAFE",
     score |-> 50 - 50,
     explanations |-> <<>>,
     normalized_url |-> u]
AnalysisUnavailable(u) ==
    [risk_category |-> "SUSPICIOUS",
     score |-> 50,
     explanations |->
        <<Expl("Analysis temporarily unavailable; proceed with caution.", <<>>)>>,
     normalized_url |-> u]

\* service_result for the stripped url u: the dev hook, else analyze_url, else
\* the fallback when analyze_url raises; raises: the call of analyze_url_service
\* raises, whatever makes it
ServiceResult(u, order, raises) ==
    Let(LAMBDA test_flag :
          IF test_flag \in DangerFlags THEN ForcedDangerous(u)
          ELSE IF test_flag \in SuspiciousFlags THEN ForcedSuspicious(u)
          ELSE IF raises THEN AnalysisUnavailable(u)
          ELSE Let(LAMBDA r : IF r = Raised THEN AnalysisUnavailable(u) ELSE r,
                   analyze_url(u, order)),
        TestFlag(u))

\* (risk_category or "SUSPICIOUS").upper(), and SUSPICIOUS for any other word
NormalizeCategory(rc) ==
    IF rc \in RiskCategory THEN rc ELSE "SUSPICIOUS"

\* "; ".join(...) or "No explanation available.": the str is modelled by the
\* list of the parts it joins
JoinExplanations(explanations) ==
    IF explanations = <<>> THEN <<Expl("No explanation available.", <<>>)>>
    ELSE explanations

\* the fields both endpoints derive from service_result
LinkVerdict(u, order, raises) ==
    Let(LAMBDA service_result :
          [url |-> u,
           normalized_url |-> IF service_result.normalized_url # <<>>
                              THEN service_result.normalized_url ELSE u,
           category |-> NormalizeCategory(service_result.risk_category),
           score |-> service_result.score,
           explanation |-> JoinExplanations(service_result.explanations),
           risk_category |-> NormalizeCategory(service_result.risk_category),
           explanations |-> service_result.explanations],
        ServiceResult(u, order, raises))

\* links: blank; SAFE; DANGEROUS with score 60; one urlparse raises on; one that
\* has no plausible host but carries the dev hook
LinkStrings ==
    {<<" ", " ">>,
     <<"g", "o", "o", "g", "l", "e", ".", "c", "o", "m">>,
     <<"g", "0", "0", "g", "l", "e", ".", "c", "o", "m", "/", "l", "o", "g", "i", "n">>,
     <<"[", "c", "o", "m">>,
     <<"g", "o", " ", "o", "g", "l", "e", ".", "c", "o", "m", "?", "l", "i", "n", "k",
       "g", "u", "a", "r", "d", "_", "t", "e", "s", "t", "=", "d", "a", "n", "g", "e", "r">>}

\* the urls of analyze-url requests: the links, the empty str, and the dev hook
\* in upper case, after a pair with a blank value, behind a '#', and on a url
\* that is DANGEROUS without it
UrlRequestStrings ==
    LinkStrings \cup
    {<<>>,
     <<"g", "0", "0", "g", "l", "e", ".", "c", "o", "m", "/", "l", "o", "g", "i", "n",
       "?", "l", "i", "n", "k", "g", "u", "a", "r", "d", "_", "t", "e", "s", "t", "=",
       "s", "u", "s">>,
     <<"g", "o", "o", "g", "l", "e", ".", "c", "o", "m", "?", "l", "i", "n", "k", "g",
       "u", "a", "r", "d", "_", "t", "e", "s", "t", "=", "S", "U", "S">>,
     <<"g", "o", "o", "g", "l", "e", ".", "c", "o", "m", "?", "l", "i", "n", "k", "g",
       "u", "a", "r", "d", "_", "t", "e", "s", "t", "=", "&", "l", "i", "n", "k", "g",
       "u", "a", "r", "d", "_", "t", "e", "s", "t", "=", "d", "a", "n", "g", "e", "r",
       "o", "u", "s">>,
     <<"g", "o", "o", "g", "l", "e", ".", "x", "y", "z", "#", "?", "l", "i", "n", "k",
       "g", "u", "a", "r", "d", "_", "t", "e", "s", "t", "=", "d", "a", "n", "g", "e", "r">>}

\* LinkVerdict of the urls the requests hold, each evaluated once
KnownLinkVerdicts ==
    [u \in {Strip(l) : l \in UrlRequestStrings} \ {<<>>} |-> LinkVerdict(u, KeywordsListed, FALSE)]

\* LinkVerdict(u, order, raises), looked up where it is known
VerdictOf(u, order, raises) ==
    IF ~raises /\ order = KeywordsListed /\ u \in DOMAIN KnownLinkVerdicts
    THEN KnownLinkVerdicts[u]
    ELSE LinkVerdict(u, order, raises)

Unknown == <<"u", "n", "k", "n", "o", "w", "n">>

\* an organization taken from the body of the request where it names one
body_org_id(payload) ==
    IF payload.client_org_id # 0 THEN payload.client_org_id ELSE payload.org_id

\* ctx.org_id: the organization of the API key, which require_api_key hands to
\* the endpoint next to the payload
ctx_org_id(payload) == payload.org_id

\* the domain column of a scan event
ScanDomain(parsed) ==
    IF parsed.scheme = <<"m", "a", "i", "l", "t", "o">>
    THEN LET addr == Strip(parsed.path)
         IN IF Contains(addr, <<"@">>) /\ After(addr, "@") # <<>>
            THEN Lower(After(addr, "@"))
            ELSE Unknown
    ELSE IF parsed.netloc # <<>> THEN Lower(Before(parsed.netloc, ":"))
    ELSE Unknown

\* the row a call of _record_scan_event adds
ScanEvent(call, parsed) ==
    [org_id |-> call.org_id,
     domain |-> ScanDomain(parsed),
     risk_category |-> NormalizeCategory(call.risk_category),
     source |-> call.source,
     scan_type |-> call.scan_type,
     artifact |-> IF call.artifact # <<>> /\ call.artifact # None
                  THEN call.artifact ELSE call.normalized_url]

\* _record_scan_event without its except Exception branch
_record_scan_event_without_except(call, dbRaises) ==
    Let(LAMBDA parsed :
          IF parsed.raises \/ dbRaises
          THEN [raised |-> TRUE, written |-> <<>>]
          ELSE [raised |-> FALSE, written |-> <<ScanEvent(call, parsed)>>],
        urlparse(call.normalized_url))

\* _record_scan_event(**call): whether it raises, and the rows it commits.
\* dbRaises: SessionLocal(), s.add or s.commit raises during this call.
_record_scan_event(call, dbRaises) ==
    Let(LAMBDA parsed :
          IF parsed.raises \/ dbRaises
          THEN [raised |-> FALSE, written |-> <<>>]
          ELSE [raised |-> FALSE, written |-> <<ScanEvent(call, parsed)>>],
        urlparse(call.normalized_url))

-----------------------------------------------------------------------------
(* api/analyze.py: the endpoints *)

\* raise HTTPException(status_code=400, detail=...)
BadRequest(detail) == [status |-> 400, detail |-> detail]
\* an exception that leaves the endpoint: the framework answers 500
ServerError == [status |-> 500]

\* analyze_url_endpoint(payload, ctx): [response, written]; the one call of
\* _record_scan_event is call 1
analyze_url_endpoint(payload, order, fails, faulty) ==
    Let(LAMBDA u :
          IF u = <<>>
          THEN [response |-> BadRequest("url is required"), written |-> <<>>]
          ELSE Let(LAMBDA v :
                 Let(LAMBDA rec :
                       IF rec.raised
                       THEN [response |-> ServerError, written |-> rec.written]
                       ELSE [response |->
                               [status |-> 200,
                                org_id |-> ctx_org_id(payload),
                                category |-> v.risk_category,
                                score |-> v.score,
                                explanation |-> v.explanation,
                                risk_category |-> v.risk_category,
                                explanations |-> v.explanations,
                                normalized_url |-> v.normalized_url],
                             written |-> rec.written],
                     _record_scan_event([org_id |-> ctx_org_id(payload),
                                         normalized_url |-> v.normalized_url,
                                         risk_category |-> v.risk_category,
                                         source |-> <<"a", "p", "i", "_", "a", "n", "a",
                                                      "l", "y", "z", "e", "_", "u", "r", "l">>,
                                         scan_type |-> "url",
                                         artifact |-> v.normalized_url],
                                        1 \in fails)),
                 VerdictOf(u, order, 1 \in faulty)),
        Strip(payload.url))

\* highest_link_score taking the score of the link at hand
TrackHighestLastWins(highest, score) == score

\* if score > highest_link_score: highest_link_score = score
TrackHighest(highest, score) == IF score > highest THEN score ELSE highest

\* risky_links_count counting the SUSPICIOUS links only
CountRiskySuspiciousOnly(risky, rc) == IF rc = "SUSPICIOUS" THEN risky + 1 ELSE risky

\* risky_links_count after a link of category rc
CountRisky(risky, rc) ==
    IF rc = "DANGEROUS" THEN risky + 1
    ELSE IF rc = "SUSPICIOUS" THEN risky + 1
    ELSE risky

\* dangerous_links_count after a link of category rc
CountDangerous(dangerous, rc) == IF rc = "DANGEROUS" THEN dangerous + 1 ELSE dangerous

\* the result put in front of the list
AppendResultInFront(per_link, v) == <<v>> \o per_link

\* per_link.append({...})
AppendResult(per_link, v) == Append(per_link, v)

\* one turn of `for raw_url in links_in`, for the link at position callNo, whose
\* call of _record_scan_event is call callNo; acc holds the loop's variables,
\* the rows written so far and whether an exception has left the loop
LinkStep(acc, raw_url, callNo, payload, order, fails, faulty) ==
    Let(LAMBDA u :
          IF acc.raised \/ u = <<>> THEN acc
          ELSE Let(LAMBDA v :
                 Let(LAMBDA rec :
                       IF rec.raised
                       THEN [acc EXCEPT !.raised = TRUE]
                       ELSE [per_link |-> AppendResult(acc.per_link, v),
                             highest_link_score |-> TrackHighest(acc.highest_link_score, v.score),
                             risky_links_count |->
                                CountRisky(acc.risky_links_count, v.risk_category),
                             dangerous_links_count |->
                                CountDangerous(acc.dangerous_links_count, v.risk_category),
                             written |-> acc.written \o rec.written,
                             raised |-> FALSE],
                     _record_scan_event([org_id |-> ctx_org_id(payload),
                                         normalized_url |-> v.normalized_url,
                                         risk_category |-> v.risk_category,
                                         source |-> payload.source,
                                         scan_type |-> "email_link",
                                         artifact |-> v.normalized_url],
                                        callNo \in fails)),
                 VerdictOf(u, order, callNo \in faulty)),
        Strip(raw_url))

\* the turns of the loop from position i on
RECURSIVE LinkLoop(_, _, _, _, _, _)
LinkLoop(acc, i, payload, order, fails, faulty) ==
    IF i > Len(payload.links) THEN acc
    ELSE LinkLoop(LinkStep(acc, payload.links[i], i, payload, order, fails, faulty),
                  i + 1, payload, order, fails, faulty)

\* overall_score ignoring the sender
OverallScoreLinksOnly(sender_score, highest_link_score) == highest_link_score

\* max(sender_score, highest_link_score)
OverallScore(sender_score, highest_link_score) ==
    IF sender_score > highest_link_score THEN sender_score ELSE highest_link_score

\* overall_rc with a strict DANGEROUS threshold
OverallCategoryStrictThreshold(overall_score) ==
    IF overall_score > 60 THEN "DANGEROUS"
    ELSE IF overall_score >= 25 THEN "SUSPICIOUS"
    ELSE "SAFE"

\* overall_rc
OverallCategory(overall_score) ==
    IF overall_score >= 60 THEN "DANGEROUS"
    ELSE IF overall_score >= 25 THEN "SUSPICIOUS"
    ELSE "SAFE"

\* overall_explanations: the sender's first explanation, then the sentence about
\* the links, its numbers kept as "<n>" or "<n>,<m>"
OverallExplanations(sender_explanations, risky_links_count, dangerous_links_count) ==
    LET fromSender == IF sender_explanations # <<>>
                      THEN <<Expl(sender_explanations[1], <<>>)>> ELSE <<>>
        fromLinks ==
            IF risky_links_count > 0
            THEN IF dangerous_links_count > 0
                 THEN <<Expl("{} dangerous link(s) and {} suspicious link(s) detected.",
                             IntToStr(dangerous_links_count) \o <<",">>
                             \o IntToStr(risky_links_count - dangerous_links_count))>>
                 ELSE <<Expl("{} suspicious link(s) detected.",
                             IntToStr(risky_links_count))>>
            ELSE <<Expl("No suspicious links detected.", <<>>)>>
        all == fromSender \o fromLinks
    IN IF all = <<>> THEN <<Expl("No suspicious signals detected.", <<>>)>> ELSE all

\* the dict analyze_email_endpoint returns, from the sender's dict and the
\* variables of the loop
EmailVerdict(payload, sender_res, acc) ==
    LET overall_score == OverallScore(sender_res.score, acc.highest_link_score)
        overall_rc == OverallCategory(overall_score)
        overall_explanations ==
            OverallExplanations(sender_res.explanations, acc.risky_links_count,
                                acc.dangerous_links_count)
    IN [status |-> 200,
        org_id |-> ctx_org_id(payload),
        category |-> overall_rc,
        score |-> overall_score,
        explanation |-> overall_explanations[1],
        risk_category |-> overall_rc,
        explanations |-> SubSeq(overall_explanations, 1,
                                IF Len(overall_explanations) < 3
                                THEN Len(overall_explanations) ELSE 3),
        sender |-> [score |-> sender_res.score,
                    risk_category |-> sender_res.risk_category,
                    explanations |-> sender_res.explanations,
                    signals |-> sender_res.signals],
        links |-> acc.per_link]

\* the call of _record_scan_event for the sender, call 0, made `if payload.from_email`
SenderEvent(payload, sender_res, fails) ==
    IF payload.from_email # None /\ payload.from_email # <<>>
    THEN _record_scan_event(
             [org_id |-> ctx_org_id(payload),
              normalized_url |-> <<"m", "a", "i", "l", "t", "o", ":">> \o payload.from_email,
              risk_category |-> sender_res.risk_category,
              source |-> payload.source,
              scan_type |-> "email_sender",
              artifact |-> payload.from_email],
             0 \in fails)
    ELSE [raised |-> FALSE, written |-> <<>>]

\* the check left out: a verdict whatever the loop evaluated
NoLinkEvaluatedUnchecked(per_link) == FALSE

\* not per_link
NoLinkEvaluated(per_link) == per_link = <<>>

\* the endpoint after the sender's event: the loop over the links, then the
\* check that a link was evaluated, then the verdict
EmailAfterSender(payload, sender_res, written, order, fails, faulty) ==
    Let(LAMBDA acc :
          IF acc.raised
          THEN [response |-> ServerError, written |-> acc.written]
          ELSE IF NoLinkEvaluated(acc.per_link)
          THEN [response |-> BadRequest("links must include at least one non-empty url"),
                written |-> acc.written]
          ELSE [response |-> EmailVerdict(payload, sender_res, acc),
                written |-> acc.written],
        LinkLoop([per_link |-> <<>>, highest_link_score |-> 0, risky_links_count |-> 0,
                  dangerous_links_count |-> 0, written |-> written, raised |-> FALSE],
                 1, payload, order, fails, faulty))

\* analyze_email_endpoint(payload, ctx): [response, written]
analyze_email_endpoint(payload, order, fails, faulty) ==
    IF payload.links = <<>>
    THEN [response |-> BadRequest("links is required"), written |-> <<>>]
    ELSE Let(LAMBDA sender_res :
               Let(LAMBDA rec :
                     IF rec.raised
                     THEN [response |-> ServerError, written |-> rec.written]
                     ELSE EmailAfterSender(payload, sender_res, rec.written, order, fails,
                                           faulty),
                   SenderEvent(payload, sender_res, fails)),
             analyze_sender(payload.from_name, payload.from_email,
                            IF payload.reply_to_emails = NoList
                            THEN <<>> ELSE payload.reply_to_emails))

-----------------------------------------------------------------------------
(* The requests, and the endpoints as a state machine *)

\* the most links in one analyze-email request
MaxLinks == 3

\* senders: none given (score 0), one scoring 55, one scoring 100
EmailSenders ==
    {[from_name |-> None, from_email |-> None, reply_to_emails |-> NoList],
     [from_name |-> <<"I", "T", " ", "S", "u", "p", "p", "o", "r", "t">>,
      from_email |-> <<"i", "t", "@", "g", "m", "a", "i", "l", ".", "c", "o", "m">>,
      reply_to_emails |-> <<<<"r", "@", "o", "t", "h", "e", "r", ".", "c", "o", "m">>>>],
     [from_name |-> <<>>,
      from_email |-> <<"a", "@", "g", "0", "0", "g", "l", "e", ".", "x", "n", "-", "-",
                       "p", "1", "a", "i">>,
      reply_to_emails |-> <<<<"r", "@", "o", "t", "h", "e", "r", ".", "c", "o", "m">>>>]}

\* the organization of the API key of the request (ctx.org_id)
OrgIds == {1}

\* the org_id a client puts in the JSON body, which is no field of AnalyzeUrlIn
\* or AnalyzeEmailIn; 0: the body has none
ClientOrgIds == {0, 2}

\* a body org_id is sent with the emails of up to two links
LongEmailsNamingAnOrg ==
    {[endpoint |-> "analyze-email", org_id |-> o, client_org_id |-> b,
      links |-> l, source |-> None,
      from_name |-> s.from_name, from_email |-> s.from_email,
      reply_to_emails |-> s.reply_to_emails] :
        o \in OrgIds, l \in ListsUpTo(LinkStrings, MaxLinks) \ ListsUpTo(LinkStrings, 2),
        s \in EmailSenders, b \in ClientOrgIds \ {0}}

EmailRequests ==
    {[endpoint |-> "analyze-email", org_id |-> o, client_org_id |-> b,
      links |-> l, source |-> None,
      from_name |-> s.from_name, from_email |-> s.from_email,
      reply_to_emails |-> s.reply_to_emails] :
        o \in OrgIds, l \in ListsUpTo(LinkStrings, MaxLinks), s \in EmailSenders,
        b \in ClientOrgIds} \ LongEmailsNamingAnOrg

UrlRequests ==
    {[endpoint |-> "analyze-url", org_id |-> o, client_org_id |-> b, url |-> u] :
        o \in OrgIds, b \in ClientOrgIds, u \in UrlRequestStrings}

\* the calls of _record_scan_event the request can lead to: 0 for the sender,
\* i for the i-th link, 1 for the url of analyze-url
PossibleCalls(req) ==
    IF req.endpoint = "analyze-url"
    THEN IF Strip(req.url) # <<>> THEN {1} ELSE {}
    ELSE IF req.links = <<>> THEN {}
    ELSE (IF req.from_email # None /\ req.from_email # <<>> THEN {0} ELSE {})
         \cup {i \in 1..Len(req.links) : Strip(req.links[i]) # <<>>}

\* the ways the database fails during one request: on none of the calls, on
\* one of them, or on all of them
FailurePatterns(req) ==
    {{}, PossibleCalls(req)} \cup {{call} : call \in PossibleCalls(req)}

\* the ways a request goes wrong: the database fails in one of its ways, or
\* analyze_url_service raises on one of its calls or on all of them (call 0
\* is the sender's event and has no such call), or both fail throughout
FaultScenarios(req) ==
    {[db |-> fails, eval |-> {}] : fails \in FailurePatterns(req)}
    \cup {[db |-> {}, eval |-> faulty \ {0}] : faulty \in FailurePatterns(req)}
    \cup {[db |-> PossibleCalls(req), eval |-> PossibleCalls(req) \ {0}]}

InitApi ==
    /\ kwOrder = KeywordsListed
    /\ url = None
    /\ urlResult = NoResult
    /\ urlPrev = NoResult
    /\ sender = NoResult
    /\ senderResult = NoResult
    /\ senderPrev = NoResult
    /\ request \in EmailRequests \cup UrlRequests
    /\ response = NoResult
    /\ sink = <<>>
    /\ sinkFailed = {}
    /\ evalFailed = {}
    /\ RateIdle
    /\ AuthIdle

\* POST /api/analyze-url; the database or the evaluator fails on some calls
HandleAnalyzeUrl ==
    /\ request # NoResult
    /\ request.endpoint = "analyze-url"
    /\ response = NoResult
    /\ \E faults \in FaultScenarios(request) :
         \E out \in {analyze_url_endpoint(request, kwOrder, faults.db,
                                         faults.eval)} :
            /\ response' = out.response
            /\ sink' = sink \o out.written
            /\ sinkFailed' = faults.db
            /\ evalFailed' = faults.eval
    /\ UNCHANGED <<request, urlVars, senderVars, rateVars, authVars>>

\* POST /api/analyze-email; the database or the evaluator fails on some calls
HandleAnalyzeEmail ==
    /\ request # NoResult
    /\ request.endpoint = "analyze-email"
    /\ response = NoResult
    /\ \E faults \in FaultScenarios(request) :
         \E out \in {analyze_email_endpoint(request, kwOrder, faults.db,
                                         faults.eval)} :
            /\ response' = out.response
            /\ sink' = sink \o out.written
            /\ sinkFailed' = faults.db
            /\ evalFailed' = faults.eval
    /\ UNCHANGED <<request, urlVars, senderVars, rateVars, authVars>>

NextApi == HandleAnalyzeUrl \/ HandleAnalyzeEmail

SpecApi == InitApi /\ [][NextApi]_vars

-----------------------------------------------------------------------------
(* The rate limiter of deps.py. rate_limit_analyze_url is a dependency that  *)
(* is no coroutine, so each request runs it in a thread of the pool, on the  *)
(* deques of _RATE_BUCKETS that all threads share. A thread can be switched  *)
(* out where the function returns from a call: after time.time(), after      *)
(* _RATE_BUCKETS.get, after each popleft and after len.                      *)

\* RATE_LIMIT_MAX and RATE_LIMIT_WINDOW_S, which the environment sets
RATE_LIMIT_MAX == 2
RATE_LIMIT_WINDOW_S == 2

\* the last second the clock shows, the requests served, the threads of the pool
MaxTime == 4
MaxRequests == 4
MaxWorkers == 2

\* ctx.api_key_id of the keys the requests carry
RateKeys == {1, 2}

Workers == 1..MaxWorkers

\* a thread that serves no request
IdleWorker == [pc |-> "idle", key |-> 0, now |-> 0, bucket |-> 0, n |-> 0]

InitRate ==
    /\ kwOrder = KeywordsListed
    /\ url = None
    /\ urlResult = NoResult
    /\ urlPrev = NoResult
    /\ sender = NoResult
    /\ senderResult = NoResult
    /\ senderPrev = NoResult
    /\ ApiIdle
    /\ AuthIdle
    /\ clock = 0
    /\ rateBuckets = [k \in RateKeys |-> 0]
    /\ deques = <<>>
    /\ workers = [w \in Workers |-> IdleWorker]
    /\ rateLog = <<>>

\* now = time.time(), by the thread w that takes up a request of the key
ReadClock(w, key) ==
    /\ workers[w].pc = "idle"
    /\ Len(rateLog) + Cardinality({v \in Workers : workers[v].pc # "idle"}) < MaxRequests
    /\ workers' = [workers EXCEPT ![w] = [IdleWorker EXCEPT !.pc = "get", !.key = key,
                                                              !.now = clock]]
    /\ UNCHANGED <<clock, rateBuckets, deques, rateLog>>
    /\ UNCHANGED <<urlVars, senderVars, apiVars, authVars>>

\* the same, of a request that arrives when the one before it has been answered
ReadClockAlone(w, key) ==
    /\ \A v \in Workers : workers[v].pc = "idle"
    /\ ReadClock(w, key)

\* key = _rate_limit_key(ctx, request); bucket = _RATE_BUCKETS.get(key)
GetBucket(w) ==
    /\ workers[w].pc = "get"
    /\ workers' = [workers EXCEPT ![w] =
                      IF rateBuckets[workers[w].key] = 0
                      THEN [workers[w] EXCEPT !.pc = "create"]
                      ELSE [workers[w] EXCEPT !.pc = "evict",
                                              !.bucket = rateBuckets[workers[w].key]]]
    /\ UNCHANGED <<clock, rateBuckets, deques, rateLog>>
    /\ UNCHANGED <<urlVars, senderVars, apiVars, authVars>>

\* if bucket is None: bucket = deque(); _RATE_BUCKETS[key] = bucket
CreateBucket(w) ==
    /\ workers[w].pc = "create"
    /\ deques' = Append(deques, <<>>)
    /\ rateBuckets' = [rateBuckets EXCEPT ![workers[w].key] = Len(deques) + 1]
    /\ workers' = [workers EXCEPT ![w] = [workers[w] EXCEPT !.pc = "evict",
                                                            !.bucket = Len(deques) + 1]]
    /\ UNCHANGED <<clock, rateLog>>
    /\ UNCHANGED <<urlVars, senderVars, apiVars, authVars>>

\* the test with <= for <: a timestamp at the cutoff itself is dropped
HeadIsOldOrAtCutoff(bucket, now) ==
    /\ bucket # <<>>
    /\ Head(bucket) <= now - RATE_LIMIT_WINDOW_S

\* bucket and bucket[0] < cutoff, for the bucket and the now of a thread
HeadIsOld(bucket, now) ==
    /\ bucket # <<>>
    /\ Head(bucket) < now - RATE_LIMIT_WINDOW_S

\* one turn of `while bucket and bucket[0] < cutoff: bucket.popleft()`
EvictOne(w) ==
    /\ workers[w].pc = "evict"
    /\ HeadIsOld(deques[workers[w].bucket], workers[w].now)
    /\ deques' = [deques EXCEPT ![workers[w].bucket] = Tail(@)]
    /\ UNCHANGED <<clock, rateBuckets, workers, rateLog>>
    /\ UNCHANGED <<urlVars, senderVars, apiVars, authVars>>

\* the loop ends, and len(bucket) is taken
ReadLen(w) ==
    /\ workers[w].pc = "evict"
    /\ ~HeadIsOld(deques[workers[w].bucket], workers[w].now)
    /\ workers' = [workers EXCEPT ![w] =
                      [workers[w] EXCEPT !.pc = "decide",
                                         !.n = Len(deques[workers[w].bucket])]]
    /\ UNCHANGED <<clock, rateBuckets, deques, rateLog>>
    /\ UNCHANGED <<urlVars, senderVars, apiVars, authVars>>

\* the Retry-After header of the 429: str(max(retry_after, 1))
RetryAfter(bucket, now) ==
    Max({1, IF bucket # <<>> THEN (Head(bucket) + RATE_LIMIT_WINDOW_S) - now
            ELSE RATE_LIMIT_WINDOW_S})

\* if len(bucket) >= RATE_LIMIT_MAX: raise HTTPException(429, ...), and else
\* bucket.append(now); the request is answered
Decide(w) ==
    /\ workers[w].pc = "decide"
    /\ IF workers[w].n >= RATE_LIMIT_MAX
       THEN /\ rateLog' = Append(rateLog,
                             [key |-> workers[w].key, now |-> workers[w].now,
                              status |-> 429,
                              retry_after |-> RetryAfter(deques[workers[w].bucket],
                                                         workers[w].now)])
            /\ UNCHANGED deques
       ELSE /\ deques' = [deques EXCEPT ![workers[w].bucket] = Append(@, workers[w].now)]
            /\ rateLog' = Append(rateLog,
                             [key |-> workers[w].key, now |-> workers[w].now,
                              status |-> 200, retry_after |-> 0])
    /\ workers' = [workers EXCEPT ![w] = IdleWorker]
    /\ UNCHANGED <<clock, rateBuckets>>
    /\ UNCHANGED <<urlVars, senderVars, apiVars, authVars>>

\* a second passes; time.time() does not go back
Tick ==
    /\ clock < MaxTime
    /\ clock' = clock + 1
    /\ UNCHANGED <<rateBuckets, deques, workers, rateLog>>
    /\ UNCHANGED <<urlVars, senderVars, apiVars, authVars>>

\* the requests are processed one after another
NextRate ==
    \/ \E w \in Workers, key \in RateKeys : ReadClockAlone(w, key)
    \/ \E w \in Workers : GetBucket(w)
    \/ \E w \in Workers : CreateBucket(w)
    \/ \E w \in Workers : EvictOne(w)
    \/ \E w \in Workers : ReadLen(w)
    \/ \E w \in Workers : Decide(w)
    \/ Tick

SpecRate == InitRate /\ [][NextRate]_vars

\* the requests are processed as they come, each in a thread of its own
NextRace ==
    \/ \E w \in Workers, key \in RateKeys : ReadClock(w, key)
    \/ \E w \in Workers : GetBucket(w)
    \/ \E w \in Workers : CreateBucket(w)
    \/ \E w \in Workers : EvictOne(w)
    \/ \E w \in Workers : ReadLen(w)
    \/ \E w \in Workers : Decide(w)
    \/ Tick

SpecRace == InitRate /\ [][NextRace]_vars

-----------------------------------------------------------------------------
(* The API keys: require_api_key of deps.py, and the two operations of       *)
(* admin_orgs.py that write the table api_keys                               *)

_API_KEY_PEPPER == <<"d", "e", "v", "-", "p", "e", "p", "p", "e", "r">>

\* hashlib.sha256((_API_KEY_PEPPER + raw_key).encode("utf-8")).hexdigest(): the
\* digest is modelled by the data it is the digest of, no two having one digest
_hash_api_key(raw_key) == <<"sha256">> \o _API_KEY_PEPPER \o raw_key

\* the 401 of require_api_key
Unauthorized(detail) == [status |-> 401, detail |-> detail, org_id |-> 0, api_key_id |-> 0]

\* require_api_key hashing the header as it came
require_api_key_without_strip(x_api_key, rows) ==
    IF x_api_key = None \/ x_api_key = <<>> \/ Strip(x_api_key) = <<>>
    THEN Unauthorized("Missing API key")
    ELSE LET found == {id \in 1..Len(rows) : rows[id].key_hash = _hash_api_key(x_api_key)}
         IN IF found = {} THEN Unauthorized("Invalid API key")
            ELSE IF ~rows[Min(found)].is_active THEN Unauthorized("Invalid API key")
            ELSE IF rows[Min(found)].revoked_at # None THEN Unauthorized("Invalid API key")
            ELSE [status |-> 200, detail |-> "", org_id |-> rows[Min(found)].org_id,
                  api_key_id |-> Min(found)]

\* require_api_key(x_api_key, db): the OrgContext, or the 401. key_hash is
\* unique, so .first() has one row to find at most; ApiKey has no attribute
\* status, so the check of the older schema finds None and lets the key pass
require_api_key(x_api_key, rows) ==
    IF x_api_key = None \/ x_api_key = <<>> \/ Strip(x_api_key) = <<>>
    THEN Unauthorized("Missing API key")
    ELSE Let(LAMBDA api_key_hash :
               LET found == {id \in 1..Len(rows) : rows[id].key_hash = api_key_hash}
               IN IF found = {} THEN Unauthorized("Invalid API key")
                  ELSE IF ~rows[Min(found)].is_active THEN Unauthorized("Invalid API key")
                  ELSE IF rows[Min(found)].revoked_at # None
                       THEN Unauthorized("Invalid API key")
                  ELSE [status |-> 200, detail |-> "",
                        org_id |-> rows[Min(found)].org_id, api_key_id |-> Min(found)],
             _hash_api_key(Strip(x_api_key)))

\* the rows of the table, the calls answered
MaxKeys == 3
MaxAuthCalls == 3

\* the keys _generate_raw_api_key hands out, and a datetime
RawKeys == {<<"k", "1">>, <<"k", "2">>, <<"k", "3">>}
SomeTime == <<"2", "0", "2", "6">>

\* a row of api_keys
ApiKeyRow(org_id, raw_key, is_active, revoked_at) ==
    [org_id |-> org_id, key_hash |-> _hash_api_key(raw_key), is_active |-> is_active,
     revoked_at |-> revoked_at]

\* the table as the service finds it: empty, or with a key in use and a key
\* that seed_api_key.py or an older release left active, inactive or revoked
SeededTables ==
    {<<>>, <<ApiKeyRow(1, <<"k", "1">>, TRUE, None)>>}
    \cup {<<ApiKeyRow(1, <<"k", "1">>, TRUE, None), ApiKeyRow(2, <<"k", "2">>, a, r)>> :
             a \in BOOLEAN, r \in {None, SomeTime}}

\* the header X-API-Key: absent, empty, blank, a key, a key in blanks, a key
\* in other letters
XApiKeys ==
    {None, <<>>, <<" ">>, <<" ", "k", "1", " ">>, <<"K", "1">>} \cup RawKeys

\* an entry of authLog
AuthEntry(op, x_api_key, id, answer) ==
    [op |-> op, x_api_key |-> x_api_key, id |-> id, status |-> answer.status,
     detail |-> answer.detail, org_id |-> answer.org_id]

InitAuth ==
    /\ kwOrder = KeywordsListed
    /\ url = None
    /\ urlResult = NoResult
    /\ urlPrev = NoResult
    /\ sender = NoResult
    /\ senderResult = NoResult
    /\ senderPrev = NoResult
    /\ ApiIdle
    /\ RateIdle
    /\ apiKeys \in SeededTables
    /\ authLog = <<>>

\* a request reaches an endpoint that depends on require_api_key
Authenticate(x_api_key) ==
    /\ Len(authLog) < MaxAuthCalls
    /\ authLog' = Append(authLog, AuthEntry("auth", x_api_key, 0,
                                            require_api_key(x_api_key, apiKeys)))
    /\ UNCHANGED apiKeys
    /\ UNCHANGED <<urlVars, senderVars, apiVars, rateVars>>

\* POST /api/admin/orgs/{org_id}/keys, for an organization that exists: a key no
\* row has yet is generated and stored by its hash
create_org_key(org_id, raw_key) ==
    /\ Len(authLog) < MaxAuthCalls
    /\ Len(apiKeys) < MaxKeys
    /\ \A id \in 1..Len(apiKeys) : apiKeys[id].key_hash # _hash_api_key(raw_key)
    /\ apiKeys' = Append(apiKeys, ApiKeyRow(org_id, raw_key, TRUE, None))
    /\ authLog' = Append(authLog,
                         AuthEntry("create", raw_key, Len(apiKeys) + 1,
                                   [status |-> 201, detail |-> "", org_id |-> org_id]))
    /\ UNCHANGED <<urlVars, senderVars, apiVars, rateVars>>

\* POST /api/admin/api-keys/{api_key_id}/revoke
revoke_api_key(api_key_id) ==
    /\ Len(authLog) < MaxAuthCalls
    /\ IF api_key_id \in 1..Len(apiKeys)
       THEN /\ apiKeys' = [apiKeys EXCEPT ![api_key_id].is_active = FALSE]
            /\ authLog' = Append(authLog,
                                 AuthEntry("revoke", None, api_key_id,
                                           [status |-> 200, detail |-> "", org_id |-> 0]))
       ELSE /\ authLog' = Append(authLog,
                                 AuthEntry("revoke", None, api_key_id,
                                           [status |-> 404, detail |-> "API key not found",
                                            org_id |-> 0]))
            /\ UNCHANGED apiKeys
    /\ UNCHANGED <<urlVars, senderVars, apiVars, rateVars>>

NextAuth ==
    \/ \E x_api_key \in XApiKeys : Authenticate(x_api_key)
    \/ \E org_id \in {1, 2}, raw_key \in RawKeys : create_org_key(org_id, raw_key)
    \/ \E api_key_id \in 1..(MaxKeys + 1) : revoke_api_key(api_key_id)

SpecAuth == InitAuth /\ [][NextAuth]_vars

-----------------------------------------------------------------------------
(* What the claims say, stated on the inputs and the returned dicts *)

\* the threshold function of the specification
ThresholdCategory(score) ==
    CASE score >= 60 -> "DANGEROUS"
      [] score >= 25 /\ score < 60 -> "SUSPICIOUS"
      [] score < 25 -> "SAFE"

\* the host and the path analyze_url works on for the input url: what the
\* parser makes of the normalized URL, lowercased
ParsedOfUrl == urlparse(_ensure_scheme(url))
HostOfUrl == Lower(ParsedOfUrl.hostname)
PathOfUrl == Lower(ParsedOfUrl.path)

\* the conditions of the five URL rules, as the specification words them
LabelsOf(host) == Split(host, ".")
IpRuleHolds(host) == IsIPv4(host) \/ IsIPv6(host)
TldRuleHolds(host) ==
    Len(LabelsOf(host)) >= 2 /\ LabelsOf(host)[Len(LabelsOf(host))] \in SUSPICIOUS_TLDS
SubdomainRuleHolds(host) == Len(LabelsOf(host)) - 2 >= 4
TypoRuleHolds(host) ==
    /\ Len(LabelsOf(host)) >= 2
    /\ LET sld == LabelsOf(host)[Len(LabelsOf(host)) - 1]
           n == [i \in 1..Len(sld) |->
                   CASE sld[i] = "0" -> "o" [] sld[i] = "1" -> "l"
                     [] sld[i] = "3" -> "e" [] OTHER -> sld[i]]
       IN n \in BRANDS /\ n # sld
PathRuleHolds(path) == \E kw \in SUSPICIOUS_PATH_KEYWORDS : Contains(path, kw)

\* the texts of the rules that hold, in rule order, and the sum of their weights
RuleTexts(host, path) ==
       (IF IpRuleHolds(host) THEN <<"Host is an IP address (common in phishing)">> ELSE <<>>)
    \o (IF TldRuleHolds(host) THEN <<"Suspicious TLD: .">> ELSE <<>>)
    \o (IF SubdomainRuleHolds(host) THEN <<"Many subdomains">> ELSE <<>>)
    \o (IF TypoRuleHolds(host) THEN <<"Possible typosquatting of brand">> ELSE <<>>)
    \o (IF PathRuleHolds(path) THEN <<"Suspicious path keyword">> ELSE <<>>)
RuleSum(host, path) ==
      (IF IpRuleHolds(host) THEN 70 ELSE 0) + (IF TldRuleHolds(host) THEN 25 ELSE 0)
    + (IF SubdomainRuleHolds(host) THEN 25 ELSE 0) + (IF TypoRuleHolds(host) THEN 30 ELSE 0)
    + (IF PathRuleHolds(path) THEN 30 ELSE 0)

UrlReturned == urlResult # NoResult /\ urlResult # Raised
HostAccepted == UrlReturned /\ urlResult.host # None

\* C1: whatever the input, the returned score is an integer in 0..100 and the
\* returned category is the threshold function of that returned score
\* (DANGEROUS iff score >= 60, SUSPICIOUS iff 25 <= score < 60, SAFE iff score < 25),
\* also when the accumulated score was clamped.
C1_ScoreInRangeAndCategoryFromScore ==
    urlResult # NoResult =>
        /\ urlResult.score \in 0..100
        /\ urlResult.risk_category = "DANGEROUS" <=> urlResult.score >= 60
        /\ urlResult.risk_category = "SUSPICIOUS" <=>
              (urlResult.score >= 25 /\ urlResult.score < 60)
        /\ urlResult.risk_category = "SAFE" <=> urlResult.score < 25

\* a result whose accumulated score (110) was clamped: four rules fired on a host
C1_ClampedResult ==
    /\ HostAccepted
    /\ Len(urlResult.explanations) = 4
    /\ RuleSum(HostOfUrl, PathOfUrl) > 100
    /\ urlResult.score = 100
    /\ urlResult.risk_category = "DANGEROUS"

\* C2: for an input whose host passes validation the score is min(100, S), S the
\* sum of the weights of exactly the rules whose condition holds (IP host 70,
\* suspicious TLD 25, label count - 2 >= 4 gives 25, typosquat 30, path keyword
\* 30), each rule tested whether or not another fired, and the explanations are
\* one entry per fired rule, in rule order.
C2_ScoreIsClampedSumOfFiredRules ==
    HostAccepted =>
        LET sum == RuleSum(urlResult.host, PathOfUrl)
            texts == RuleTexts(urlResult.host, PathOfUrl)
        IN /\ urlResult.score = (IF sum < 100 THEN sum ELSE 100)
           /\ texts # <<>> =>
                 [i \in 1..Len(urlResult.explanations) |-> urlResult.explanations[i].text]
                    = texts

\* the IP rule and the path rule both fired on one URL
C2_IpAndPathRuleFired ==
    /\ HostAccepted
    /\ IpRuleHolds(urlResult.host)
    /\ PathRuleHolds(PathOfUrl)
    /\ Len(urlResult.explanations) = 2
    /\ urlResult.score = 100

\* the sentinel verdict, for the normalized URL n
IsSentinel(r, n) ==
    /\ r.score = 40
    /\ r.risk_category = "SUSPICIOUS"
    /\ r.host = None
    /\ Len(r.explanations) = 1
    /\ r.normalized_url = n

\* a host is plausible, in the words of the specification
PlausibleHost(h) ==
    /\ h # <<>>
    /\ \A i \in 1..Len(h) : h[i] \notin Whitespace
    /\ \A i \in 1..Len(h) : h[i] \in Range(LowerLetters) \cup Digits \cup {".", "-"}
    /\ (Contains(h, <<".">>) \/ IsIPv4(h) \/ IsIPv6(h))

\* C3: analyze_url never raises; when parsing throws, the host is absent or the
\* host is implausible, the result is the sentinel verdict (score 40, SUSPICIOUS,
\* host absent, exactly one explanation, the normalized URL reconstructed).
C3_NeverRaisesAndSentinel ==
    urlResult # NoResult =>
        /\ urlResult # Raised
        /\ (ParsedOfUrl.raises \/ HostOfUrl = <<>> \/ ~PlausibleHost(HostOfUrl)) =>
              IsSentinel(urlResult, _ensure_scheme(url))

\* the parser raised on the input, and the call returned the sentinel verdict
C3_ParserRaisedAndSentinelReturned ==
    /\ UrlReturned
    /\ ParsedOfUrl.raises
    /\ IsSentinel(urlResult, _ensure_scheme(url))

\* C4: the lowercased host is accepted for rule evaluation (returned non-absent)
\* if and only if it is non-empty, has no whitespace, consists of [a-z0-9.-] and
\* either contains a '.' or is a valid IPv4 or IPv6 literal; every other host
\* yields the sentinel outcome with host absent.
C4_HostAcceptedIffPlausible ==
    (UrlReturned /\ ~ParsedOfUrl.raises) =>
        IF PlausibleHost(HostOfUrl)
        THEN urlResult.host = HostOfUrl
        ELSE IsSentinel(urlResult, _ensure_scheme(url))

\* a host of legal characters is refused only for having no dot
C4_DotlessHostRefused ==
    /\ UrlReturned
    /\ ~ParsedOfUrl.raises
    /\ HostOfUrl # <<>>
    /\ \A i \in 1..Len(HostOfUrl) : HostOfUrl[i] \in Range(LowerLetters)
    /\ urlResult.host = None

\* C5: the returned normalized_url is "https://" followed by the stripped input
\* when the stripped input contains no "://", and the stripped input unchanged
\* when it contains one.
C5_NormalizedUrlIsSchemeQualified ==
    urlResult # NoResult =>
        urlResult.normalized_url =
            (IF Contains(Strip(url), <<":", "/", "/">>)
             THEN Strip(url)
             ELSE <<"h", "t", "t", "p", "s", ":", "/", "/">> \o Strip(url))

\* an input with whitespace around it and no scheme got https:// put in front
C5_PaddedInputGotScheme ==
    /\ UrlReturned
    /\ url # <<>>
    /\ url[1] = " "
    /\ Strip(url) # <<>>
    /\ ~Contains(url, <<":", "/", "/">>)
    /\ SubSeq(urlResult.normalized_url, 1, 8) = <<"h", "t", "t", "p", "s", ":", "/", "/">>
    /\ Len(urlResult.normalized_url) < Len(url) + 8

\* C6: every URL whose validated host is a literal IP address is DANGEROUS,
\* whatever its path and the other rules.
C6_IpHostIsDangerous ==
    (HostAccepted /\ IpRuleHolds(urlResult.host)) =>
        urlResult.risk_category = "DANGEROUS"

\* an IP host on which no other rule fired: score 70
C6_IpHostAlone ==
    /\ HostAccepted
    /\ IpRuleHolds(urlResult.host)
    /\ urlResult.score = 70
    /\ urlResult.risk_category = "DANGEROUS"

\* C7: for a validated host these are equivalent: no rule fired; score = 0;
\* category SAFE; explanations = ["No suspicious patterns detected"].  So one
\* fired rule already gives a non-SAFE category, and explanations is never empty.
C7_SafeIffNoRuleFired ==
    /\ HostAccepted =>
          LET noRule == RuleTexts(urlResult.host, PathOfUrl) = <<>>
              clean == urlResult.explanations =
                          <<Expl("No suspicious patterns detected", <<>>)>>
          IN /\ noRule <=> urlResult.score = 0
             /\ noRule <=> urlResult.risk_category = "SAFE"
             /\ noRule <=> clean
    /\ UrlReturned => urlResult.explanations # <<>>

\* a validated host on which no rule fired
C7_CleanUrl ==
    /\ HostAccepted
    /\ RuleTexts(urlResult.host, PathOfUrl) = <<>>
    /\ urlResult.score = 0
    /\ urlResult.risk_category = "SAFE"

\* C8: evaluating the same input twice yields identical results, for
\* analyze_url (also for a path with more than one suspicious keyword) and for
\* analyze_sender.
C8_SameInputSameResult ==
    /\ (urlResult # NoResult /\ urlPrev # NoResult) => urlResult = urlPrev
    /\ (senderResult # NoResult /\ senderPrev # NoResult) => senderResult = senderPrev

\* the weights of the sender rules, by signal
ClaimedSenderWeight(signal) ==
    CASE signal = "reply_to_mismatch" -> 40
      [] signal = "free_mail_provider" -> 15
      [] signal = "display_name_domain_mismatch" -> 15
      [] signal = "punycode_domain" -> 30
      [] signal = "lookalike_domain" -> 35

RECURSIVE SumOfClaimedWeights(_)
SumOfClaimedWeights(signals) ==
    IF signals = <<>> THEN 0
    ELSE ClaimedSenderWeight(Head(signals)) + SumOfClaimedWeights(Tail(signals))

C10_NoFromDomainNoRule ==
    (senderResult # NoResult
        /\ (sender.from_email = None \/ ~Contains(sender.from_email, <<"@">>))) =>
        /\ senderResult.score = 0
        /\ senderResult.risk_category = "SAFE"
        /\ senderResult.signals = <<>>
        /\ senderResult.explanations = <<>>

\* a brand display name and a Reply-To address, but a From address without '@'
C10_BrandNameNoFromDomain ==
    /\ senderResult # NoResult
    /\ sender.from_email # None
    /\ sender.from_email # <<>>
    /\ ~Contains(sender.from_email, <<"@">>)
    /\ sender.from_name # None
    /\ _find_brand_in_text(sender.from_name) # None
    /\ sender.reply_to_emails # NoList
    /\ ReplyToDomains(sender.reply_to_emails) # <<>>
    /\ senderResult.score = 0

\* the From domain and the Reply-To list of the sender evaluated
FromDomainOfSender == _extract_domain(sender.from_email)
ReplyTosOfSender ==
    IF sender.reply_to_emails = NoList THEN <<>> ELSE sender.reply_to_emails

\* the base domain in the words of the specification: the last two labels of a
\* domain, its labels being its non-empty dot-separated parts
ClaimedBaseDomain(d) ==
    LET labels == SelectSeq(Split(d, "."), LAMBDA p : p # <<>>)
    IN IF Len(labels) < 2 THEN d
       ELSE labels[Len(labels) - 1] \o <<".">> \o labels[Len(labels)]

\* the Reply-To addresses whose base domain differs from that of the From domain
MismatchingReplyTos ==
    {i \in 1..Len(ReplyTosOfSender) :
        /\ _extract_domain(ReplyTosOfSender[i]) # <<>>
        /\ ClaimedBaseDomain(_extract_domain(ReplyTosOfSender[i]))
              # ClaimedBaseDomain(FromDomainOfSender)}

TimesSignalled(signal) ==
    Cardinality({i \in 1..Len(senderResult.signals) : senderResult.signals[i] = signal})

\* C11: reply_to_mismatch fires, adding 40 and its signal exactly once, if and
\* only if from_domain is set and at least one Reply-To address has a base domain
\* (last two labels) different from the From base domain; a Reply-To address on a
\* subdomain of the From base domain does not trigger it, and any number of
\* mismatching addresses adds 40 once.
C11_ReplyToMismatchIffBaseDomainDiffers ==
    senderResult # NoResult =>
        LET fires == FromDomainOfSender # <<>> /\ MismatchingReplyTos # {}
            others == SumOfClaimedWeights(
                         SelectSeq(senderResult.signals,
                                   LAMBDA sig : sig # "reply_to_mismatch"))
            sum == (IF fires THEN 40 ELSE 0) + others
        IN /\ TimesSignalled("reply_to_mismatch") = (IF fires THEN 1 ELSE 0)
           /\ senderResult.score = (IF sum < 100 THEN sum ELSE 100)

\* two Reply-To addresses mismatch, the signal is there once and the score is 40
C11_TwoMismatchesCountOnce ==
    /\ senderResult # NoResult
    /\ Cardinality(MismatchingReplyTos) = 2
    /\ senderResult.signals = <<"reply_to_mismatch">>
    /\ senderResult.score = 40

\* the brands of the table whose token the display name contains
NamedBrands ==
    LET name == IF sender.from_name = None THEN <<>> ELSE Lower(sender.from_name)
    IN {BrandKeys[i] : i \in {k \in 1..Len(BrandKeys) : Contains(name, BrandKeys[k])}}

\* C12: display_name_domain_mismatch fires exactly when the display name
\* contains a known brand token and the base domain of from_domain is not among
\* that brand's allowed domains; it does not fire when the sender's base domain
\* is an allowed domain of a brand named in the display name.
C12_DisplayMismatchIffBrandDomainForeign ==
    senderResult # NoResult =>
        (TimesSignalled("display_name_domain_mismatch") = 1
            <=> /\ NamedBrands # {}
                /\ FromDomainOfSender # <<>>
                /\ \A b \in NamedBrands :
                      ClaimedBaseDomain(FromDomainOfSender) \notin BRAND_TOKENS(b))

\* the rule order, and the explanation that belongs to each signal
SignalOrder ==
    <<"reply_to_mismatch", "free_mail_provider", "display_name_domain_mismatch",
      "punycode_domain", "lookalike_domain">>
SignalRank(signal) == CHOOSE i \in 1..Len(SignalOrder) : SignalOrder[i] = signal
ClaimedExplanation(signal) ==
    CASE signal = "reply_to_mismatch" -> "Reply-To domain does not match From domain."
      [] signal = "free_mail_provider" ->
           "Sender uses a free email provider for an organizational-looking display name."
      [] signal = "display_name_domain_mismatch" ->
           "Display name suggests a brand/organization that doesn't match the sender domain."
      [] signal = "punycode_domain" ->
           "Sender domain contains punycode (xn--), which is sometimes used for lookalike domains."
      [] signal = "lookalike_domain" ->
           "Sender domain appears to be a lookalike of a well-known brand."

\* C13: in every analyze_sender result signals and explanations have the same
\* length, the i-th explanation belongs to the i-th signal, no signal occurs
\* twice, and both follow the rule order reply_to_mismatch, free_mail_provider,
\* display_name_domain_mismatch, punycode_domain, lookalike_domain.
C13_SignalsAndExplanationsAligned ==
    senderResult # NoResult =>
        /\ Len(senderResult.signals) = Len(senderResult.explanations)
        /\ \A i \in 1..Len(senderResult.signals) :
              /\ senderResult.signals[i] \in Range(SignalOrder)
              /\ senderResult.explanations[i] = ClaimedExplanation(senderResult.signals[i])
        /\ \A i \in 1..Len(senderResult.signals) : \A j \in 1..Len(senderResult.signals) :
              i < j => SignalRank(senderResult.signals[i]) < SignalRank(senderResult.signals[j])

\* four rules fired on one sender, punycode and lookalike among them
C13_FourSignals ==
    /\ senderResult # NoResult
    /\ Len(senderResult.signals) = 4
    /\ senderResult.signals[3] = "punycode_domain"
    /\ senderResult.signals[4] = "lookalike_domain"

-----------------------------------------------------------------------------
(* The claims about the endpoints, stated on the request and the response *)

\* the analyze-email request was answered with a verdict
EmailAnswered ==
    /\ request.endpoint = "analyze-email"
    /\ response # NoResult
    /\ response.status = 200

LinkScores == {response.links[i].score : i \in 1..Len(response.links)}

\* C14: for every analyze-email request answered with a verdict, the overall
\* score is the maximum of the sender score and the scores of all per-link
\* results (0 if none); so it is at least the sender score and every link
\* score, and it is the sender score exactly when no link scores higher
C14_OverallScoreIsMaximum ==
    EmailAnswered =>
        /\ response.score = Max({response.sender.score, 0} \cup LinkScores)
        /\ response.score >= response.sender.score
        /\ \A s \in LinkScores : response.score >= s
        /\ (response.score = response.sender.score)
             <=> (\A s \in LinkScores : s <= response.sender.score)

\* a verdict where the sender outscores links that are not all of score 0
C14_SenderWinsOverLinks ==
    /\ EmailAnswered
    /\ \E s \in LinkScores : s > 0
    /\ \A s \in LinkScores : s < response.sender.score
    /\ response.score = response.sender.score

\* C15: for every analyze-email verdict, the overall category is the one the
\* thresholds give the overall score (>= 60 DANGEROUS, >= 25 SUSPICIOUS, else
\* SAFE), and the fields category and risk_category are equal
C15_OverallCategoryFromOverallScore ==
    EmailAnswered =>
        /\ response.category = ThresholdCategory(response.score)
        /\ response.category = response.risk_category

\* a verdict whose overall score is the DANGEROUS threshold itself
C15_OverallScoreAtThreshold ==
    /\ EmailAnswered
    /\ response.score = 60
    /\ response.category = "DANGEROUS"

\* D and R of the specification, counted on the per-link results
DangerousResults ==
    Cardinality({i \in 1..Len(response.links) : response.links[i].category = "DANGEROUS"})
RiskyResults ==
    Cardinality({i \in 1..Len(response.links) : response.links[i].category # "SAFE"})

\* the sentence about the links, for D dangerous and R risky results
ClaimedLinkSummary(D, R) ==
    CASE D > 0 ->
           Expl("{} dangerous link(s) and {} suspicious link(s) detected.",
                IntToStr(D) \o <<",">> \o IntToStr(R - D))
      [] D = 0 /\ R > 0 -> Expl("{} suspicious link(s) detected.", IntToStr(R))
      [] OTHER -> Expl("No suspicious links detected.", <<>>)

\* overall_explanations before the truncation, as the specification words them
ClaimedOverallExplanations ==
    (IF response.sender.explanations # <<>>
     THEN <<Expl(response.sender.explanations[1], <<>>)>> ELSE <<>>)
    \o <<ClaimedLinkSummary(DangerousResults, RiskyResults)>>

\* C16: in every analyze-email verdict the overall explanations are the sender's
\* first explanation (only if the sender has any), then exactly one sentence
\* about the links built from D, the number of DANGEROUS per-link results, and
\* R, the number of per-link results that are not SAFE; 0 <= D <= R <= the
\* number of per-link results, and the truncation to 3 entries drops nothing
C16_OverallExplanationsFromCounters ==
    EmailAnswered =>
        /\ response.explanations = ClaimedOverallExplanations
        /\ response.explanation = ClaimedOverallExplanations[1]
        /\ Len(ClaimedOverallExplanations) <= 3
        /\ 0 <= DangerousResults
        /\ DangerousResults <= RiskyResults
        /\ RiskyResults <= Len(response.links)

\* a verdict with a sender explanation and both dangerous and suspicious links
C16_DangerousAndSuspiciousLinks ==
    /\ EmailAnswered
    /\ Len(response.explanations) = 2
    /\ DangerousResults > 0
    /\ RiskyResults > DangerousResults

\* the links of the request that are not blank, in input order, stripped
NonBlankLinks ==
    LET kept == SelectSeq(request.links, LAMBDA l : Strip(l) # <<>>)
    IN [i \in 1..Len(kept) |-> Strip(kept[i])]

\* normalization fails on u: parsing throws, or the host is absent or implausible
FailsNormalization(u) ==
    LET parsed == urlparse(_ensure_scheme(u))
    IN parsed.raises \/ Lower(parsed.hostname) = <<>> \/ ~PlausibleHost(Lower(parsed.hostname))

\* u carries a linkguard_test value that forces a category
CarriesOverride(u) == TestFlag(u) \in DangerFlags \cup SuspiciousFlags

\* C17, as stated: the links array of an analyze-email response has exactly one
\* result per link of the input list, in input order; a link that fails
\* normalization contributes the sentinel verdict (score 40, SUSPICIOUS) at its
\* position and never aborts or shortens the batch
C17_OneResultPerLink ==
    EmailAnswered =>
        /\ Len(response.links) = Len(request.links)
        /\ \A i \in 1..Len(request.links) :
              /\ i <= Len(response.links) => response.links[i].url = Strip(request.links[i])
              /\ (i <= Len(response.links) /\ FailsNormalization(request.links[i])) =>
                    /\ response.links[i].score = 40
                    /\ response.links[i].category = "SUSPICIOUS"

\* the links of the requests that fail normalization and carry no override
OwedTheSentinel ==
    {u \in {Strip(l) : l \in LinkStrings} : FailsNormalization(u) /\ ~CarriesOverride(u)}

\* C17, amended: the links array has exactly one result per non-blank link of
\* the input list, in input order (blank links are skipped); a non-blank link
\* that fails normalization and carries no linkguard_test override contributes
\* the sentinel verdict (score 40, SUSPICIOUS) at its position, and the batch
\* is never aborted or shortened by it. Where the call of the evaluator itself
\* raised there is no normalization to fail, and the link has the fallback
\* verdict, SUSPICIOUS as well.
C17_OneResultPerNonBlankLink ==
    (request.endpoint = "analyze-email" /\ response # NoResult) =>
        /\ response.status \in {200, 400}
        /\ (NonBlankLinks # <<>>) => response.status = 200
        /\ EmailAnswered =>
              LET kept == NonBlankLinks
                  calls == SelectSeq([j \in 1..Len(request.links) |-> j],
                                     LAMBDA j : Strip(request.links[j]) # <<>>)
              IN /\ Len(response.links) = Len(kept)
                 /\ \A i \in 1..Len(kept) :
                       /\ response.links[i].url = kept[i]
                       /\ kept[i] \in OwedTheSentinel =>
                             /\ response.links[i].score
                                  = IF calls[i] \in evalFailed THEN 50 ELSE 40
                             /\ response.links[i].category = "SUSPICIOUS"
                             /\ response.links[i].risk_category = "SUSPICIOUS"

\* a batch with a blank link and, before its last link, a link that fails
\* normalization: the blank link has no result, the failing one the sentinel's
C17_BlankSkippedAndSentinelInPlace ==
    /\ EmailAnswered
    /\ Len(request.links) = 3
    /\ Strip(request.links[1]) = <<>>
    /\ Len(response.links) = 2
    /\ FailsNormalization(response.links[1].url)
    /\ ~CarriesOverride(response.links[1].url)
    /\ response.links[1].score = 40
    /\ ~FailsNormalization(response.links[2].url)

Categories == {"SAFE", "SUSPICIOUS", "DANGEROUS"}

\* the response is a verdict with every field the caller reads
WellFormedVerdict ==
    /\ response.status = 200
    /\ response.org_id = request.org_id
    /\ response.score \in 0..100
    /\ response.category \in Categories
    /\ response.risk_category \in Categories
    /\ response.explanations # <<>>
    /\ response.explanation = response.explanations[1]
    /\ response.sender.score \in 0..100
    /\ response.sender.risk_category \in Categories
    /\ response.links # <<>>
    /\ \A i \in 1..Len(response.links) :
          /\ response.links[i].score \in 0..100
          /\ response.links[i].category \in Categories
          /\ response.links[i].url # <<>>
          /\ response.links[i].normalized_url # <<>>

\* C18: an analyze-email request whose links list is empty or holds only blank
\* strings is answered with the validation error (HTTP 400), never with a
\* verdict; every request with at least one non-blank link is answered with a
\* well-formed verdict
C18_NoUsableLinkIsRejected ==
    (request.endpoint = "analyze-email" /\ response # NoResult) =>
        IF \A i \in 1..Len(request.links) : Strip(request.links[i]) = <<>>
        THEN response.status = 400 /\ "score" \notin DOMAIN response
        ELSE WellFormedVerdict

\* a request with links, all of them blank, answered with the error
C18_BlankLinksRejected ==
    /\ request.endpoint = "analyze-email"
    /\ Len(request.links) = 2
    /\ \A i \in 1..Len(request.links) : Strip(request.links[i]) = <<>>
    /\ response # NoResult
    /\ response.status = 400

\* links with the links at positions i and i + 1 exchanged
SwapLinks(links, i) == [links EXCEPT ![i] = links[i + 1], ![i + 1] = links[i]]

\* what a verdict says of the email as a whole: the overall fields, the two
\* counts of links, and the per-link results without their order
AggregateOf(verdict) ==
    [status |-> verdict.status,
     score |-> verdict.score,
     category |-> verdict.category,
     risk_category |-> verdict.risk_category,
     explanation |-> verdict.explanation,
     explanations |-> verdict.explanations,
     dangerous |-> Cardinality({k \in 1..Len(verdict.links) :
                                  verdict.links[k].category = "DANGEROUS"}),
     risky |-> Cardinality({k \in 1..Len(verdict.links) :
                              verdict.links[k].category # "SAFE"}),
     results |-> [v \in Range(verdict.links) |->
                    Cardinality({k \in 1..Len(verdict.links) : verdict.links[k] = v})]]

\* C19: the aggregate email verdict does not depend on the order of the links:
\* with the same sender and the same links in another order, the overall score,
\* the overall category, the dangerous and risky counts and the overall
\* explanations are the same, and only the order of the per-link results
\* changes. Stated for the exchange of two neighbouring links, of which every
\* permutation is a composition; the requests are closed under such exchanges.
\* Compared on the answers given while the sink and the evaluator work.
C19_AggregateIndependentOfLinkOrder ==
    (EmailAnswered /\ sinkFailed = {} /\ evalFailed = {}) =>
        \A i \in 1..(Len(request.links) - 1) :
            AggregateOf(analyze_email_endpoint(
                            [request EXCEPT !.links = SwapLinks(request.links, i)],
                            kwOrder, {}, {}).response)
            = AggregateOf(response)

\* a verdict on two links where the first scores higher than the second, so
\* that the exchange puts the highest score last
C19_HighestLinkFirst ==
    /\ EmailAnswered
    /\ Len(request.links) = 2
    /\ Len(response.links) = 2
    /\ response.links[1].score > response.links[2].score
    /\ response.links[1].score > response.sender.score

\* the answer to the request when every write to the sink succeeds
AnswerWhenWritesSucceed ==
    IF request.endpoint = "analyze-url"
    THEN analyze_url_endpoint(request, kwOrder, {}, evalFailed).response
    ELSE analyze_email_endpoint(request, kwOrder, {}, evalFailed).response

\* C20: writing scan events is fire-and-forget: for every analyze-url and
\* analyze-email request, when some or all of the _record_scan_event calls
\* fail, the HTTP status and the returned verdict (category, score,
\* explanations, sender and per-link results) are those returned when every
\* write succeeds, and the links after a failed write are still evaluated
C20_SinkFailuresLeaveTheAnswerAlone ==
    (response # NoResult /\ sinkFailed # {}) =>
        /\ response = AnswerWhenWritesSucceed
        /\ response.status # 500
        /\ EmailAnswered => Len(response.links) = Len(NonBlankLinks)

\* every write of an email with a sender and two links failed; the verdict
\* holds both links and nothing was written
C20_AllWritesFailed ==
    /\ request.endpoint = "analyze-email"
    /\ response # NoResult
    /\ Cardinality(sinkFailed) = 3
    /\ 0 \in sinkFailed
    /\ sink = <<>>
    /\ response.status = 200
    /\ Len(response.links) = 2

-----------------------------------------------------------------------------
(* Further claims about analyze_url *)

\* the positions of the explanations the path keyword rule appended
KeywordExplanations ==
    {i \in 1..Len(urlResult.explanations) :
        urlResult.explanations[i].text = "Suspicious path keyword"}

\* C26: the path keyword rule fires at most once per URL: however many of the
\* listed keywords the path contains, it adds exactly 30 to the score and
\* appends exactly one "Suspicious path keyword" explanation, and it never
\* fires when the path is empty
C26_KeywordRuleFiresOnce ==
    HostAccepted =>
        LET others == RuleSum(urlResult.host, <<>>)
            fired == PathRuleHolds(PathOfUrl)
        IN /\ Cardinality(KeywordExplanations) = (IF fired THEN 1 ELSE 0)
           /\ urlResult.score = MinScore100(others + (IF fired THEN 30 ELSE 0))
           /\ PathOfUrl = <<>> => KeywordExplanations = {}

\* a path that holds two of the keywords, and the one explanation it got
C26_TwoKeywordsOneExplanation ==
    /\ HostAccepted
    /\ Cardinality({kw \in SUSPICIOUS_PATH_KEYWORDS : Contains(PathOfUrl, kw)}) = 2
    /\ Cardinality(KeywordExplanations) = 1
    /\ urlResult.score = 30

\* C29: normalization is idempotent for analyze_url: analyzing the normalized_url
\* returned for an input yields the same normalized_url, host, score, category
\* and explanations as analyzing the input itself
C29_NormalizationIdempotent ==
    UrlReturned =>
        LET again == analyze_url(urlResult.normalized_url, kwOrder)
        IN /\ again.normalized_url = urlResult.normalized_url
           /\ again.host = urlResult.host
           /\ again.score = urlResult.score
           /\ again.risk_category = urlResult.risk_category
           /\ again.explanations = urlResult.explanations

-----------------------------------------------------------------------------
(* Faults of the evaluator *)

\* the positions in request.links of the links that are not blank, in order
EvaluatedPositions ==
    SelectSeq([j \in 1..Len(request.links) |-> j],
              LAMBDA j : Strip(request.links[j]) # <<>>)

\* v is the degraded verdict: SUSPICIOUS, score 50, one explanation saying so
Degraded(v) ==
    /\ v.category = "SUSPICIOUS"
    /\ v.risk_category = "SUSPICIOUS"
    /\ v.score = 50
    /\ v.explanations # <<>>
    /\ v.explanation
         = <<Expl("Analysis temporarily unavailable; proceed with caution.", <<>>)>>

\* C21: when the evaluator raises, analyze-url still answers 200 with the
\* degraded verdict (SUSPICIOUS, an integer score, a non-empty explanation, the
\* org_id of the caller); in analyze-email the link whose evaluation raised has
\* the degraded verdict and every other link has the result it has when no
\* evaluation raises, and the overall score is still the maximum of the sender
\* score and the link scores. A link the dev hook decides is never handed to
\* the evaluator.
C21_EvaluatorFaultGivesDegradedVerdict ==
    (response # NoResult /\ evalFailed # {}) =>
        IF request.endpoint = "analyze-url"
        THEN /\ response.status = 200
             /\ response.org_id = request.org_id
             /\ ~CarriesOverride(Strip(request.url)) => Degraded(response)
        ELSE /\ response.status = 200
             /\ response.org_id = request.org_id
             /\ LET calls == EvaluatedPositions
                    healthy == analyze_email_endpoint(request, kwOrder, sinkFailed,
                                                      {}).response
                IN /\ Len(response.links) = Len(calls)
                   /\ \A i \in 1..Len(calls) :
                         IF calls[i] \in evalFailed
                            /\ ~CarriesOverride(Strip(request.links[calls[i]]))
                         THEN /\ Degraded(response.links[i])
                              /\ response.links[i].url = Strip(request.links[calls[i]])
                         ELSE response.links[i] = healthy.links[i]
                   /\ response.sender = healthy.sender
                   /\ response.score
                        = Max({response.sender.score}
                                 \cup {response.links[i].score : i \in 1..Len(calls)})

\* the evaluation of the first of two links raised and the second link, still
\* evaluated, is DANGEROUS and decides the overall score
C21_OneLinkDegradedOthersEvaluated ==
    /\ EmailAnswered
    /\ Len(request.links) = 2
    /\ Len(response.links) = 2
    /\ evalFailed = {1}
    /\ Degraded(response.links[1])
    /\ response.links[2].category = "DANGEROUS"
    /\ response.links[2].score = 60
    /\ response.score = 60
    /\ response.category = "DANGEROUS"

-----------------------------------------------------------------------------
(* The organization of a verdict *)

\* C24: the org_id of every analyze-url and analyze-email response, and of
\* every scan event written for the request, is the organization of the API
\* key that authenticated the request; an org_id in the request body changes
\* neither
C24_OrgIdIsTheKeysOrganization ==
    response # NoResult =>
        /\ response.status = 200 => response.org_id = request.org_id
        /\ \A i \in 1..Len(sink) : sink[i].org_id = request.org_id

\* a verdict, and an event written for it, of a request whose body names
\* another organization than the key's
C24_ClientSuppliedOrgIdIgnored ==
    /\ response # NoResult
    /\ response.status = 200
    /\ request.client_org_id # 0
    /\ request.client_org_id # request.org_id
    /\ sink # <<>>
    /\ response.org_id = request.org_id

-----------------------------------------------------------------------------
(* The dev hook *)

\* the value of the query parameter linkguard_test of u as the client wrote it:
\* the first that is not empty; "" when there is none or u does not parse
LinkguardTestValue(u) ==
    LET parsed == urlparse(u)
    IN IF parsed.raises THEN <<>>
       ELSE FirstQueryValue(
               Split(parsed.query, "&"),
               <<"l", "i", "n", "k", "g", "u", "a", "r", "d", "_", "t", "e", "s", "t">>)

\* v is what the endpoints return for the url u whose linkguard_test value is
\* read as flag: the forced verdict for the four values, and else what the
\* heuristic evaluator says of u, or the degraded verdict where it raised
HookDecides(v, u, flag, raised) ==
    IF flag \in DangerFlags
    THEN v.category = "DANGEROUS" /\ v.risk_category = "DANGEROUS" /\ v.score = 100
    ELSE IF flag \in SuspiciousFlags
    THEN v.category = "SUSPICIOUS" /\ v.risk_category = "SUSPICIOUS" /\ v.score = 55
    ELSE IF raised THEN Degraded(v)
    ELSE LET heuristic == analyze_url(u, kwOrder)
         IN /\ v.score = heuristic.score
            /\ v.risk_category = heuristic.risk_category
            /\ v.explanations = heuristic.explanations
            /\ v.normalized_url = heuristic.normalized_url

\* C25, as stated: in both endpoints a URL whose linkguard_test value is
\* "danger" or "dangerous" gets DANGEROUS with score 100 and one whose value is
\* "suspicious" or "sus" gets SUSPICIOUS with score 55, whatever the heuristic
\* evaluator says or does; every other value leaves the heuristic verdict in
\* force
C25_HookForcesTheFourValues ==
    response # NoResult =>
        IF request.endpoint = "analyze-url"
        THEN response.status = 200 =>
                HookDecides(response, Strip(request.url),
                            LinkguardTestValue(Strip(request.url)), 1 \in evalFailed)
        ELSE EmailAnswered =>
                \A i \in 1..Len(response.links) :
                    HookDecides(response.links[i], response.links[i].url,
                                LinkguardTestValue(response.links[i].url),
                                EvaluatedPositions[i] \in evalFailed)

\* C25, amended: the value is compared without regard to case; with that, a
\* URL whose linkguard_test value is "danger" or "dangerous" gets DANGEROUS with
\* score 100 and one whose value is "suspicious" or "sus" gets SUSPICIOUS with
\* score 55, whatever the heuristic evaluator says or does, and every other
\* value leaves the heuristic verdict in force
C25_HookForcesTheFourValuesInAnyCase ==
    response # NoResult =>
        IF request.endpoint = "analyze-url"
        THEN response.status = 200 =>
                HookDecides(response, Strip(request.url),
                            Lower(LinkguardTestValue(Strip(request.url))),
                            1 \in evalFailed)
        ELSE EmailAnswered =>
                \A i \in 1..Len(response.links) :
                    HookDecides(response.links[i], response.links[i].url,
                                Lower(LinkguardTestValue(response.links[i].url)),
                                EvaluatedPositions[i] \in evalFailed)

\* a url the evaluator calls DANGEROUS is forced down to SUSPICIOUS 55, though
\* the call of the evaluator would have raised
C25_ForcedBelowTheHeuristicVerdict ==
    /\ request.endpoint = "analyze-url"
    /\ response # NoResult
    /\ response.status = 200
    /\ LinkguardTestValue(Strip(request.url)) = <<"s", "u", "s">>
    /\ analyze_url(Strip(request.url), kwOrder).score > 55
    /\ 1 \in evalFailed
    /\ response.score = 55
    /\ response.category = "SUSPICIOUS"

-----------------------------------------------------------------------------
(* The overall category among the categories *)

\* SAFE < SUSPICIOUS < DANGEROUS
CategoryRank(c) ==
    CASE c = "SAFE" -> 0
      [] c = "SUSPICIOUS" -> 1
      [] c = "DANGEROUS" -> 2

\* C27: in every analyze-email verdict the overall category is the highest,
\* under SAFE < SUSPICIOUS < DANGEROUS, of the sender category and the per-link
\* categories, forced and fallback verdicts included: DANGEROUS whenever a link
\* is DANGEROUS, and never SAFE while the sender or a link is not SAFE
C27_OverallCategoryIsHighestCategory ==
    EmailAnswered =>
        /\ CategoryRank(response.category)
             = Max({CategoryRank(response.sender.risk_category)}
                   \cup {CategoryRank(response.links[i].category) :
                            i \in 1..Len(response.links)})
        /\ (\E i \in 1..Len(response.links) : response.links[i].category = "DANGEROUS")
              => response.category = "DANGEROUS"
        /\ response.category = "SAFE" =>
              /\ response.sender.risk_category = "SAFE"
              /\ \A i \in 1..Len(response.links) : response.links[i].category = "SAFE"

\* a SUSPICIOUS sender, a link whose evaluation raised and a link forced to
\* DANGEROUS: the overall category is the forced link's
C27_ForcedLinkDecidesOverDegradedAndSender ==
    /\ EmailAnswered
    /\ Len(response.links) = 2
    /\ response.sender.risk_category = "SUSPICIOUS"
    /\ \E i \in 1..2 : Degraded(response.links[i])
    /\ \E i \in 1..2 : response.links[i].score = 100
    /\ response.category = "DANGEROUS"

-----------------------------------------------------------------------------
(* The sink of a rejected request *)

\* C30: an analyze-email request rejected with the 400 validation error for
\* having no usable link leaves the sink as it was: no email_sender and no
\* email_link event has been written for it when the error is returned, also
\* when from_email is present
C30_RejectedEmailWritesNothing ==
    (request.endpoint = "analyze-email" /\ response # NoResult
        /\ response.status = 400) =>
        sink = <<>>

-----------------------------------------------------------------------------
(* The rate limiter *)

\* the requests of the key answered before the i-th that were admitted with a
\* timestamp of at least t
AdmittedSince(i, key, t) ==
    {j \in 1..(i - 1) : /\ rateLog[j].key = key
                        /\ rateLog[j].status = 200
                        /\ rateLog[j].now >= t}

\* the admitted requests of the key with a timestamp from t to t + RATE_LIMIT_WINDOW_S
AdmittedInWindow(key, t) ==
    {j \in 1..Len(rateLog) : /\ rateLog[j].key = key
                             /\ rateLog[j].status = 200
                             /\ rateLog[j].now >= t
                             /\ rateLog[j].now <= t + RATE_LIMIT_WINDOW_S}

\* C22: of requests processed one after another, rate_limit_analyze_url admits
\* the request of a key arriving at time t if and only if fewer than
\* RATE_LIMIT_MAX requests of that key admitted before it have a timestamp
\* >= t - RATE_LIMIT_WINDOW_S, and else rejects it with 429 and a Retry-After of
\* at least 1; so no window of RATE_LIMIT_WINDOW_S seconds holds more than
\* RATE_LIMIT_MAX admitted requests of a key, and a key is admitted again once
\* its old timestamps have left the window
C22_AdmitsIffFewerThanMaxInWindow ==
    /\ \A i \in 1..Len(rateLog) :
          LET r == rateLog[i]
              recent == AdmittedSince(i, r.key, r.now - RATE_LIMIT_WINDOW_S)
          IN /\ r.status \in {200, 429}
             /\ r.status = 200 <=> Cardinality(recent) < RATE_LIMIT_MAX
             /\ r.status = 429 => r.retry_after >= 1
             /\ (recent = {} /\ RATE_LIMIT_MAX > 0) => r.status = 200
    /\ \A key \in RateKeys, t \in 0..MaxTime :
          Cardinality(AdmittedInWindow(key, t)) <= RATE_LIMIT_MAX

\* a key is admitted up to the limit, rejected, and admitted again when the
\* window has passed
C22_LimitedThenAdmittedAgain ==
    /\ Len(rateLog) = RATE_LIMIT_MAX + 2
    /\ \A i \in 1..Len(rateLog) : rateLog[i].key = 1
    /\ \A i \in 1..RATE_LIMIT_MAX : rateLog[i].status = 200
    /\ rateLog[RATE_LIMIT_MAX + 1].status = 429
    /\ rateLog[RATE_LIMIT_MAX + 2].status = 200
    /\ rateLog[RATE_LIMIT_MAX + 2].now
         = rateLog[RATE_LIMIT_MAX].now + RATE_LIMIT_WINDOW_S + 1

\* C28: when requests of one key run rate_limit_analyze_url in several threads
\* at once, no window of RATE_LIMIT_WINDOW_S seconds holds more than
\* RATE_LIMIT_MAX admitted requests of the key, and the bucket of the key never
\* holds more than RATE_LIMIT_MAX timestamps inside the window
C28_LimitHoldsAmongThreads ==
    /\ \A key \in RateKeys, t \in 0..MaxTime :
          Cardinality(AdmittedInWindow(key, t)) <= RATE_LIMIT_MAX
    /\ \A key \in RateKeys :
          rateBuckets[key] # 0 =>
              LET bucket == deques[rateBuckets[key]]
              IN Cardinality({i \in 1..Len(bucket) :
                                 bucket[i] >= clock - RATE_LIMIT_WINDOW_S})
                   <= RATE_LIMIT_MAX

-----------------------------------------------------------------------------
(* The API keys *)

\* the last entry of authLog, which is of the table as it is
LastAuth == authLog[Len(authLog)]

\* the rows whose key_hash is the peppered hash of the key
RowsOfKey(key) ==
    {id \in 1..Len(apiKeys) : apiKeys[id].key_hash = _hash_api_key(key)}

\* the key is that of a stored key that is active and not revoked
StoredActiveKey(key) ==
    \E id \in RowsOfKey(key) : apiKeys[id].is_active /\ apiKeys[id].revoked_at = None

\* the requests that present the key of a row after revoke_api_key succeeded
\* for the row are all rejected, and the row stays inactive
RevokedStaysRevoked ==
    \A i \in 1..Len(authLog) :
        (authLog[i].op = "revoke" /\ authLog[i].status = 200) =>
            /\ ~apiKeys[authLog[i].id].is_active
            /\ \A j \in (i + 1)..Len(authLog) :
                  (/\ authLog[j].op = "auth"
                   /\ authLog[j].x_api_key # None
                   /\ authLog[i].id \in RowsOfKey(Strip(authLog[j].x_api_key)))
                      => authLog[j].status = 401

\* C23, as stated: require_api_key admits a request if and only if the
\* presented X-API-Key is non-blank and its peppered hash is the key_hash of a
\* stored key that is active and not revoked; a missing key gets 401 "Missing
\* API key", an unknown, inactive or revoked key 401 "Invalid API key"; after
\* revoke_api_key succeeded for a key, every later request presenting it is
\* rejected
C23_AdmitsIffHashOfHeaderIsStored ==
    /\ (authLog # <<>> /\ LastAuth.op = "auth") =>
          LET x == LastAuth.x_api_key
              blank == x = None \/ Strip(x) = <<>>
          IN /\ LastAuth.status = 200 <=> (~blank /\ StoredActiveKey(x))
             /\ LastAuth.status # 200 =>
                   /\ LastAuth.status = 401
                   /\ LastAuth.detail = IF blank THEN "Missing API key"
                                        ELSE "Invalid API key"
    /\ RevokedStaysRevoked

\* C23, amended: the key is the header stripped of the whitespace around it;
\* require_api_key admits a request if and only if that key is not empty and
\* its peppered hash is the key_hash of a stored key that is active and not
\* revoked, in the name of that key's organization; a missing or blank header
\* gets 401 "Missing API key", an unknown, inactive or revoked key 401 "Invalid
\* API key"; after revoke_api_key succeeded for a key, every later request
\* presenting it is rejected
C23_AdmitsIffHashOfStrippedHeaderIsStored ==
    /\ (authLog # <<>> /\ LastAuth.op = "auth") =>
          LET x == LastAuth.x_api_key
              blank == x = None \/ Strip(x) = <<>>
          IN /\ LastAuth.status = 200 <=> (~blank /\ StoredActiveKey(Strip(x)))
             /\ LastAuth.status = 200 =>
                   \E id \in RowsOfKey(Strip(x)) : LastAuth.org_id = apiKeys[id].org_id
             /\ LastAuth.status # 200 =>
                   /\ LastAuth.status = 401
                   /\ LastAuth.detail = IF blank THEN "Missing API key"
                                        ELSE "Invalid API key"
    /\ RevokedStaysRevoked

\* the key of a row is admitted with blanks around it; the row is revoked, and
\* the key is rejected
C23_CreatedAdmittedRevokedRejected ==
    /\ apiKeys = <<ApiKeyRow(1, <<"k", "1">>, FALSE, None)>>
    /\ Len(authLog) = 3
    /\ authLog[1].op = "auth"
    /\ authLog[1].x_api_key = <<" ", "k", "1", " ">>
    /\ authLog[1].status = 200
    /\ authLog[2].op = "revoke"
    /\ authLog[2].status = 200
    /\ authLog[3].op = "auth"
    /\ authLog[3].x_api_key = <<"k", "1">>
    /\ authLog[3].status = 401

====
